---- MODULE Spec2Model ----
(***************************************************************************)
(* A model of the editing core of the Axiom terminal editor:               *)
(*   src/editor/buffer.py    TextBuffer   (document store, search/replace) *)
(*   src/editor/core.py      AxiomEditor  (cursor, viewport, key handlers) *)
(*   src/editor/commands.py  CommandParser (goto, find, replace, open ...) *)
(*                                                                         *)
(* Text is a sequence of one-character strings; a document is a sequence   *)
(* of lines.  Python indices are 0-based, TLA+ sequences 1-based: line n   *)
(* of the code is lines[n + 1] here.                                       *)
(*                                                                         *)
(* Four specifications share the variables:                                *)
(*   Spec        an editing session: keys and commands                     *)
(*   SpecBuffer  the calls of TextBuffer, with any arguments               *)
(*   SpecFile    save_file, step by step, and load_file over a file system *)
(*   SpecFind    one find_text or find_all_occurrences call                *)
(*                                                                         *)
(* Not modelled: the Tab key, regular-expression search (regex=True), the  *)
(* typing and parsing of a command line, rendering and syntax colouring.   *)
(***************************************************************************)
EXTENDS Integers, Sequences, FiniteSets, TLC

----------------------------------------------------------------------------
(* Bounds of the model.  *)

\* Lines of a document.
MaxLines == 2
\* Characters of a document, all lines together.
MaxChars == 2

----------------------------------------------------------------------------
(* Characters.  *)

LF == "LF"
CR == "CR"
\* What the keyboard types in the session (printable keys 32..126).
Keys == {"a", "b"}
\* Python's None, for an Optional[str].
None == "None"
\* Python's None, for an Optional[tuple].
NoMatch == <<>>

Min(a, b) == IF a <= b THEN a ELSE b
Max(a, b) == IF a >= b THEN a ELSE b
SetMin(S) == CHOOSE x \in S : \A y \in S : x <= y

\* s[i:j] for i, j >= 0: both ends are clamped to len(s).
Slice(s, i, j) ==
    LET lo == Min(Max(i, 0), Len(s))
        hi == Min(Max(j, 0), Len(s))
    IN  IF lo >= hi THEN <<>> ELSE SubSeq(s, lo + 1, hi)

\* s[i:]
SliceFrom(s, i) == Slice(s, i, Len(s))

\* The lines with line n (0-based) replaced.
SetLine(L, n, new) == [L EXCEPT ![n + 1] = new]

RECURSIVE SumLen(_)
SumLen(L) == IF L = <<>> THEN 0 ELSE Len(Head(L)) + SumLen(Tail(L))

\* The capital I with a dot above (U+0130), and the combining dot above
\* (U+0307) its lower case ends with.
Idot == "Idot"
Dot  == "dot"

\* str.lower() of one character: the full lower case, which for U+0130 is
\* the two characters i, U+0307.
lower_char(c) ==
    CASE c = "A"  -> <<"a">>
      [] c = "B"  -> <<"b">>
      [] c = Idot -> <<"i", Dot>>
      [] OTHER    -> <<c>>

\* str.lower()
RECURSIVE lower(_)
lower(s) == IF s = <<>> THEN <<>> ELSE lower_char(Head(s)) \o lower(Tail(s))

\* The one-character lower case re.IGNORECASE compares with.
simple_lower(c) ==
    CASE c = "A"  -> "a"
      [] c = "B"  -> "b"
      [] c = Idot -> "i"
      [] OTHER    -> c

\* Whether sub occurs in s at index i (0-based).
OccursAt(s, sub, i) ==
    /\ i >= 0
    /\ i + Len(sub) <= Len(s)
    /\ \A k \in 1..Len(sub) : s[i + k] = sub[k]

\* str.find(sub, start) for start >= 0: the lowest index >= start where sub
\* occurs, or -1.
str_find(s, sub, start) ==
    LET hits == {i \in start..(Len(s) - Len(sub)) : OccursAt(s, sub, i)}
    IN  IF hits = {} THEN -1 ELSE SetMin(hits)

\* str.count(sub): the non-overlapping occurrences, scanning left to
\* right; the empty sub occurs before every character and at the end.
RECURSIVE str_count_from(_, _, _)
str_count_from(s, sub, start) ==
    LET pos == str_find(s, sub, start)
    IN  IF sub = <<>> THEN Len(s) - start + 1
        ELSE IF pos = -1 THEN 0
        ELSE 1 + str_count_from(s, sub, pos + Len(sub))

\* str.replace(old, new); for the empty old, new is put before every
\* character and at the end.
RECURSIVE str_replace_from(_, _, _, _)
str_replace_from(s, old, new, start) ==
    LET pos == str_find(s, old, start)
    IN  IF old = <<>>
        THEN IF start >= Len(s) THEN new
             ELSE new \o <<s[start + 1]>> \o str_replace_from(s, old, new, start + 1)
        ELSE IF pos = -1 THEN SliceFrom(s, start)
        ELSE Slice(s, start, pos) \o new
                 \o str_replace_from(s, old, new, pos + Len(old))

----------------------------------------------------------------------------
(* TextBuffer: the editing operations, as functions of the lines.  *)

ValidLine(L, n) == 0 <= n /\ n < Len(L)

\* insert_char on a valid line: an out-of-range col is clamped to the end.
insert_char_at_end(L, line_num, col, char) ==
    SetLine(L, line_num, L[line_num + 1] \o <<char>>)
insert_char(L, line_num, col, char) ==
    LET line == L[line_num + 1]
        c    == IF 0 <= col /\ col <= Len(line) THEN col ELSE Len(line)
    IN  SetLine(L, line_num, Slice(line, 0, c) \o <<char>> \o SliceFrom(line, c))

\* Whether delete_char removes a character (otherwise it returns silently).
delete_char_applies_to_end(L, line_num, col) ==
    /\ ValidLine(L, line_num)
    /\ 0 <= col
    /\ col <= Len(L[line_num + 1])
delete_char_applies(L, line_num, col) ==
    /\ ValidLine(L, line_num)
    /\ 0 <= col
    /\ col < Len(L[line_num + 1])

delete_char(L, line_num, col) ==
    IF delete_char_applies(L, line_num, col)
    THEN LET line == L[line_num + 1]
         IN  SetLine(L, line_num, Slice(line, 0, col) \o SliceFrom(line, col + 1))
    ELSE L

\* insert_newline with the right part put before the left part.
insert_newline_swapped(L, line_num, col) ==
    LET line == L[line_num + 1]
        c    == IF 0 <= col /\ col <= Len(line) THEN col ELSE Len(line)
    IN  SubSeq(L, 1, line_num) \o <<SliceFrom(line, c), Slice(line, 0, c)>>
            \o SubSeq(L, line_num + 2, Len(L))

\* insert_newline on a valid line.
insert_newline(L, line_num, col) ==
    LET line       == L[line_num + 1]
        c          == IF 0 <= col /\ col <= Len(line) THEN col ELSE Len(line)
        left_part  == Slice(line, 0, c)
        right_part == SliceFrom(line, c)
    IN  SubSeq(L, 1, line_num) \o <<left_part, right_part>>
            \o SubSeq(L, line_num + 2, Len(L))

\* Whether join_lines joins (otherwise it returns silently).
join_lines_applies(L, line_num) == 0 <= line_num /\ line_num < Len(L) - 1

join_lines_reversed(L, line_num) ==
    IF join_lines_applies(L, line_num)
    THEN SubSeq(L, 1, line_num) \o <<L[line_num + 2] \o L[line_num + 1]>>
             \o SubSeq(L, line_num + 3, Len(L))
    ELSE L
join_lines(L, line_num) ==
    IF join_lines_applies(L, line_num)
    THEN SubSeq(L, 1, line_num) \o <<L[line_num + 1] \o L[line_num + 2]>>
             \o SubSeq(L, line_num + 3, Len(L))
    ELSE L

\* replace_text with an end column that is not raised to the start column.
replace_text_end_unclamped(L, new_text, line_num, start_col, end_col) ==
    LET line == L[line_num + 1]
        s    == Max(0, Min(start_col, Len(line)))
        e    == Min(end_col, Len(line))
    IN  SetLine(L, line_num, Slice(line, 0, s) \o new_text \o SliceFrom(line, e))

\* replace_text on a valid line: the span is clamped to the line.
replace_text(L, new_text, line_num, start_col, end_col) ==
    LET line == L[line_num + 1]
        s    == Max(0, Min(start_col, Len(line)))
        e    == Max(s, Min(end_col, Len(line)))
    IN  SetLine(L, line_num, Slice(line, 0, s) \o new_text \o SliceFrom(line, e))

----------------------------------------------------------------------------
(* TextBuffer: search.  Only literal search is modelled (regex = False);   *)
(* the whole-word mode is the regular expression \b<escaped pattern>\b,    *)
(* modelled by what it matches.                                            *)

\* \w of Python's re, on the characters of the model.
IsWordChar(c) == c \in {"a", "b", "c", "d", "e", "f", "i", "o", "r", "x", "z", "A", "B", Idot}

\* The regex anchor \b before index k of line (0-based).
WordBoundary(line, k) ==
    LET before == k >= 1 /\ k <= Len(line) /\ IsWordChar(line[k])
        after  == k >= 0 /\ k < Len(line) /\ IsWordChar(line[k + 1])
    IN  before # after

\* Whether \b<pat>\b matches line at index i; ic is re.IGNORECASE.
WordMatchAt(line, pat, ic, i) ==
    /\ IF ic
       THEN /\ i >= 0
            /\ i + Len(pat) <= Len(line)
            /\ \A k \in 1..Len(pat) :
                   simple_lower(line[i + k]) = simple_lower(pat[k])
       ELSE OccursAt(line, pat, i)
    /\ WordBoundary(line, i)
    /\ WordBoundary(line, i + Len(pat))

\* re.finditer / subn of \b<pat>\b over line from index from: the start
\* indices of the successive non-overlapping matches.
RECURSIVE word_finditer(_, _, _, _)
word_finditer(line, pat, ic, from) ==
    LET hits == {i \in from..(Len(line) - Len(pat)) : WordMatchAt(line, pat, ic, i)}
    IN  IF hits = {} THEN <<>>
        ELSE LET i == SetMin(hits)
             IN  <<i>> \o word_finditer(line, pat, ic,
                                        IF pat = <<>> THEN i + 1 ELSE i + Len(pat))

\* The first element of a sequence of indices that is >= start_pos, or -1.
FirstAtOrAfter(starts, start_pos) ==
    LET ks == {k \in 1..Len(starts) : starts[k] >= start_pos}
    IN  IF ks = {} THEN -1 ELSE starts[SetMin(ks)]

\* _search_range, line 284: the column the scan of a line starts from.
start_pos_same(line_num, start_line, start_col) == start_col
start_pos_of(line_num, start_line, start_col) ==
    IF line_num = start_line THEN start_col ELSE 0

\* _search_range: the loop over the lines, from line_num on; a negative
\* line_num indexes the lines from the end, as a Python list does.  pattern has
\* been lower-cased by find_text when the search is case-insensitive; the
\* whole-word branch computes flags and never passes them to re.finditer.
RECURSIVE search_range(_, _, _, _, _, _, _, _)
search_range(L, pattern, line_num, start_line, start_col, end_line, cs, ww) ==
    IF line_num >= Min(end_line, Len(L)) THEN NoMatch
    ELSE LET line        == L[(IF line_num >= 0 THEN line_num
                                ELSE Len(L) + line_num) + 1]
             search_line == IF cs THEN line ELSE lower(line)
             start_pos   == start_pos_of(line_num, start_line, start_col)
             pos == IF ww
                    THEN FirstAtOrAfter(word_finditer(line, pattern, FALSE, 0),
                                        start_pos)
                    ELSE str_find(search_line, pattern, start_pos)
         IN  IF pos # -1 THEN <<line_num, pos, pos + Len(pattern)>>
             ELSE search_range(L, pattern, line_num + 1, start_line, start_col,
                               end_line, cs, ww)

\* find_text, line 266: a wrapped result counts only strictly before the start.
wrap_accepts(res, start_line, start_col) ==
    /\ res # NoMatch
    /\ \/ res[1] < start_line
       \/ res[1] = start_line /\ res[2] < start_col

find_text(L, pattern0, start_line, start_col, cs, ww, wrap_around) ==
    LET pattern == IF cs THEN pattern0 ELSE lower(pattern0)
        result  == search_range(L, pattern, start_line, start_line, start_col,
                                Len(L), cs, ww)
    IN  IF result # NoMatch THEN result
        ELSE IF wrap_around /\ (start_line > 0 \/ start_col > 0)
        THEN LET wrapped == search_range(L, pattern, 0, 0, 0, start_line + 1,
                                         cs, ww)
             IN  IF wrap_accepts(wrapped, start_line, start_col)
                 THEN wrapped ELSE NoMatch
        ELSE NoMatch

\* find_all_occurrences, lines 333-340: the literal scan of one line; the
\* next scan starts one character after the start of the last hit.
RECURSIVE find_all_in_line(_, _, _, _, _)
find_all_in_line(line_num, search_line, search_pattern, plen, start) ==
    LET pos == str_find(search_line, search_pattern, start)
    IN  IF pos = -1 THEN <<>>
        ELSE <<<<line_num, pos, pos + plen>>>>
                 \o find_all_in_line(line_num, search_line, search_pattern,
                                     plen, pos + 1)

\* find_all_occurrences of one line; the whole-word branch uses the pattern
\* as given and passes no flags.
find_all_of_line(line_num, line, pattern, cs, ww) ==
    IF ww
    THEN LET starts == word_finditer(line, pattern, FALSE, 0)
         IN  [k \in 1..Len(starts) |->
                  <<line_num, starts[k], starts[k] + Len(pattern)>>]
    ELSE find_all_in_line(line_num,
                          IF cs THEN line ELSE lower(line),
                          IF cs THEN pattern ELSE lower(pattern),
                          Len(pattern), 0)

RECURSIVE find_all_from(_, _, _, _, _)
find_all_from(L, line_num, pattern, cs, ww) ==
    IF line_num >= Len(L) THEN <<>>
    ELSE find_all_of_line(line_num, L[line_num + 1], pattern, cs, ww)
             \o find_all_from(L, line_num + 1, pattern, cs, ww)

find_all_occurrences(L, pattern, cs, ww) == find_all_from(L, 0, pattern, cs, ww)

----------------------------------------------------------------------------
(* TextBuffer: replace_all (literal patterns).  Each line yields            *)
(* <<new line, count>>; the case-insensitive loop is defined for a          *)
(* non-empty old_text only (SpecScan runs it step by step).                 *)

\* The replacement of the whole-word branch is handed to subn, which reads
\* it as a template: a backslash starts an escape.  TemplateError is what a
\* bad escape raises (re.error).
Backslash     == "\\"
TemplateError == <<"re.error">>

\* The escapes a template accepts, on the characters of the model.
template_escape(c) ==
    CASE c = Backslash -> <<Backslash>>
      [] c = "a"       -> <<"BEL">>
      [] c = "b"       -> <<"BS">>
      [] c = "f"       -> <<"FF">>
      [] OTHER         -> TemplateError

\* What subn substitutes for the template, or TemplateError.
RECURSIVE expand_template(_)
expand_template(t) ==
    IF t = <<>> THEN <<>>
    ELSE IF Head(t) # Backslash
    THEN LET rest == expand_template(Tail(t))
         IN  IF rest = TemplateError THEN TemplateError ELSE <<Head(t)>> \o rest
    ELSE IF Len(t) = 1 THEN TemplateError
    ELSE LET esc  == template_escape(t[2])
             rest == expand_template(Tail(Tail(t)))
         IN  IF esc = TemplateError \/ rest = TemplateError
             THEN TemplateError ELSE esc \o rest

\* regex subn over the matches of \b<old>\b.
RECURSIVE word_subn(_, _, _, _)
word_subn(line, starts, olen, new_text) ==
    IF starts = <<>> THEN line
    ELSE LET i == starts[Len(starts)]
         IN  word_subn(Slice(line, 0, i) \o new_text \o SliceFrom(line, i + olen),
                       SubSeq(starts, 1, Len(starts) - 1), olen, new_text)

\* Lines 390-403: the case-insensitive loop over one line.
RECURSIVE ci_replace_from(_, _, _, _, _)
ci_replace_from(line, lower_line, old_text, new_text, start) ==
    LET pos == str_find(lower_line, lower(old_text), start)
    IN  IF pos = -1 THEN <<SliceFrom(line, start), 0>>
        ELSE LET rest == ci_replace_from(line, lower_line, old_text, new_text,
                                         pos + Len(old_text))
             IN  <<Slice(line, start, pos) \o new_text \o rest[1], 1 + rest[2]>>

replace_all_line(line, old_text, new_text, cs, ww) ==
    IF ww
    THEN LET starts == word_finditer(line, old_text, ~cs, 0)
         IN  <<word_subn(line, starts, Len(old_text), expand_template(new_text)),
               Len(starts)>>
    ELSE IF cs
    THEN <<str_replace_from(line, old_text, new_text, 0),
           str_count_from(line, old_text, 0)>>
    ELSE ci_replace_from(line, lower(line), old_text, new_text, 0)

\* Whether replace_all raises: subn reads the template on the first line,
\* before any line is changed, and the re.error becomes an AxiomError.
replace_all_raises(old_text, new_text, cs, ww) ==
    ww /\ expand_template(new_text) = TemplateError

\* replace_all: <<new lines, replacement_count>>.
RECURSIVE replace_all_count(_, _, _, _, _)
replace_all_count(L, old_text, new_text, cs, ww) ==
    IF L = <<>> THEN 0
    ELSE replace_all_line(Head(L), old_text, new_text, cs, ww)[2]
             + replace_all_count(Tail(L), old_text, new_text, cs, ww)

replace_all_lines(L, old_text, new_text, cs, ww) ==
    [k \in 1..Len(L) |-> replace_all_line(L[k], old_text, new_text, cs, ww)[1]]

----------------------------------------------------------------------------
(* The file system, as TextBuffer sees it.  A path holds a record:         *)
(*   kind      "missing" | "file" | "dir"   (Path.exists, Path.is_file)    *)
(*   data      the characters stored                                       *)
(*   big       st_size > config.max_file_size                              *)
(*   readable  open(path, 'r') succeeds                                    *)
(*   utf8      the bytes decode as UTF-8                                   *)
(*   resolves  Path.resolve() returns (it raises on a relative path when   *)
(*             the working directory is gone, and on a symlink loop)       *)

Missing == [kind |-> "missing", data |-> <<>>, big |-> FALSE,
            readable |-> TRUE, utf8 |-> TRUE, resolves |-> TRUE]
Directory == [kind |-> "dir", data |-> <<>>, big |-> FALSE,
              readable |-> TRUE, utf8 |-> TRUE, resolves |-> TRUE]
RegularFile(d) == [kind |-> "file", data |-> d, big |-> FALSE,
                   readable |-> TRUE, utf8 |-> TRUE, resolves |-> TRUE]

\* A path that does not exist and that Path.resolve() cannot resolve.
Unresolvable == [Missing EXCEPT !.resolves = FALSE]

\* _detect_encoding: utf-8 and utf-8-sig fail on the same bytes and latin-1
\* decodes anything; a file that cannot be opened falls to the outer except.
detect_encoding(st) ==
    IF ~st.readable THEN "utf-8"
    ELSE IF st.utf8 THEN "utf-8" ELSE "latin-1"

\* open(path, 'r') without newline=: universal newlines, every CR LF and
\* every lone CR is read as LF.
RECURSIVE universal_newlines(_)
universal_newlines(d) ==
    IF d = <<>> THEN <<>>
    ELSE IF Head(d) = CR
    THEN <<LF>> \o universal_newlines(IF Len(d) >= 2 /\ d[2] = LF
                                      THEN SubSeq(d, 3, Len(d)) ELSE Tail(d))
    ELSE <<Head(d)>> \o universal_newlines(Tail(d))

\* What f.read() returns.
read_text(st) == universal_newlines(st.data)

Contains(s, sub) == \E i \in 0..(Len(s) - Len(sub)) : OccursAt(s, sub, i)

\* _detect_line_endings
detect_line_endings(content) ==
    IF Contains(content, <<CR, LF>>) THEN <<CR, LF>>
    ELSE IF Contains(content, <<CR>>) THEN <<CR>>
    ELSE <<LF>>

\* str.splitlines(): CR LF, CR and LF end a line; no line after the last
\* terminator.
RECURSIVE splitlines_acc(_, _)
splitlines_acc(s, cur) ==
    IF s = <<>> THEN (IF cur = <<>> THEN <<>> ELSE <<cur>>)
    ELSE IF Head(s) = CR /\ Len(s) >= 2 /\ s[2] = LF
    THEN <<cur>> \o splitlines_acc(SubSeq(s, 3, Len(s)), <<>>)
    ELSE IF Head(s) \in {CR, LF}
    THEN <<cur>> \o splitlines_acc(Tail(s), <<>>)
    ELSE splitlines_acc(Tail(s), Append(cur, Head(s)))

splitlines(s) == splitlines_acc(s, <<>>)

\* load_file, lines 70-77: the lines of the content read.
lines_of_content_unguarded(content) == splitlines(content)
lines_of_content(content) ==
    IF content # <<>>
    THEN (IF splitlines(content) = <<>> THEN <<<<>>>> ELSE splitlines(content))
    ELSE <<<<>>>>

\* str.join
RECURSIVE str_join(_, _)
str_join(sep, L) ==
    IF L = <<>> THEN <<>>
    ELSE IF Len(L) = 1 THEN L[1]
    ELSE L[1] \o sep \o str_join(sep, Tail(L))

\* How load_file ends on a path in state st: "new" (no such path),
\* "loaded", or the error raised; "unresolved" is the failure of
\* file_path.resolve() at line 45, after line 44 has assigned the lines.
load_outcome(st) ==
    IF st.kind = "missing" THEN (IF st.resolves THEN "new" ELSE "unresolved")
    ELSE IF st.kind # "file" THEN "not_a_file"
    ELSE IF st.big THEN "too_large"
    ELSE IF ~st.readable THEN "cannot_read"
    ELSE "loaded"

load_raises(st) ==
    load_outcome(st) \in {"unresolved", "not_a_file", "too_large", "cannot_read"}

----------------------------------------------------------------------------
VARIABLES
    \* TextBuffer
    lines, filename, encoding, line_ending, modified, total_chars, total_lines,
    \* AxiomEditor
    cursor_x, cursor_y, scroll_x, scroll_y, height, width, show_line_numbers,
    ed_modified, current_file, running, last_search,
    \* the kind of key or command _handle_edit_input handled last
    last_op,
    \* the file system
    fs,
    \* whether the last TextBuffer call raised AxiomError
    raised,
    \* save_file and load_file as calls: the position of a save_file in
    \* progress, the last call made, the buffer and the file of the call as
    \* they were when it began, the step at which a save_file failed, and
    \* whether the last call loaded the file that the call before had saved
    pc, call, pre, failed_at, round_trip,
    \* find_text and find_all_occurrences as calls: the arguments, and what
    \* the call returned
    query, found

bufVars  == <<lines, filename, encoding, line_ending, modified, total_chars,
              total_lines>>
curVars  == <<cursor_x, cursor_y>>
viewVars == <<scroll_x, scroll_y>>
termVars == <<height, width, show_line_numbers>>
edVars   == <<ed_modified, current_file, running, last_search>>
callVars == <<pc, call, pre, failed_at, round_trip, query, found>>
vars     == <<bufVars, curVars, viewVars, termVars, edVars, last_op, fs,
              raised, callVars>>

\* The fields of the TextBuffer.
BufferState ==
    [lines |-> lines, filename |-> filename, encoding |-> encoding,
     line_ending |-> line_ending, modified |-> modified,
     total_chars |-> total_chars, total_lines |-> total_lines]

\* No save_file or load_file has been called.
NoCall ==
    /\ pc = "idle"
    /\ call = "none"
    /\ pre = [buf |-> BufferState, file |-> Missing, path |-> None]
    /\ failed_at = "none"
    /\ round_trip = FALSE

\* No find_text or find_all_occurrences has been called.
NoQuery == [pattern |-> <<>>, start_line |-> 0, start_col |-> 0, cs |-> TRUE,
            ww |-> FALSE, wrap |-> TRUE]
NoResult == [op |-> "none", value |-> NoMatch]

\* _update_stats
update_stats(L) ==
    /\ total_lines' = Len(L)
    /\ total_chars' = SumLen(L) + (Len(L) - 1)

\* An editing operation that recomputes the stats and leaves modified as
\* it was.
BufEditedUnmarked(L) ==
    /\ lines' = L
    /\ update_stats(L)
    /\ UNCHANGED <<filename, encoding, line_ending, modified>>

\* An editing operation that changed the lines: modified, stats recomputed.
BufEdited(L) ==
    /\ lines' = L
    /\ modified' = TRUE
    /\ update_stats(L)
    /\ UNCHANGED <<filename, encoding, line_ending>>

\* load_file of path, found in state st.  A failure after _detect_encoding
\* (line 61) has already assigned self.encoding.
load_file(path, st) ==
    CASE load_outcome(st) = "new" ->
            /\ lines' = <<<<>>>>
            /\ filename' = path
            /\ modified' = FALSE
            /\ update_stats(<<<<>>>>)
            /\ UNCHANGED <<encoding, line_ending>>
      [] load_outcome(st) = "unresolved" ->
            /\ lines' = <<<<>>>>
            /\ UNCHANGED <<filename, encoding, line_ending, modified,
                           total_chars, total_lines>>
      [] load_outcome(st) \in {"not_a_file", "too_large"} ->
            UNCHANGED bufVars
      [] load_outcome(st) = "cannot_read" ->
            /\ encoding' = detect_encoding(st)
            /\ UNCHANGED <<lines, filename, line_ending, modified, total_chars,
                           total_lines>>
      [] load_outcome(st) = "loaded" ->
            LET content == read_text(st)
                L       == lines_of_content(content)
            IN  /\ encoding' = detect_encoding(st)
                /\ line_ending' = detect_line_endings(content)
                /\ lines' = L
                /\ filename' = path
                /\ modified' = FALSE
                /\ update_stats(L)

----------------------------------------------------------------------------
(* AxiomEditor: cursor and viewport.  *)

\* The width of the line-number column (core.py, lines 169, 302, 460).
GutterWidth == 5

\* self.status_line, the number of text rows (lines 44, 123).
status_line == height - 2

visible_width == IF show_line_numbers THEN width - GutterWidth ELSE width

\* _adjust_cursor_x; a negative cursor_y indexes the lines from the end,
\* as a Python list does.
adjust_cursor_x(L, cx, cy) ==
    IF cy < Len(L)
    THEN Min(cx, Len(L[(IF cy >= 0 THEN cy ELSE Len(L) + cy) + 1]))
    ELSE cx

\* _ensure_cursor_visible, for the cursor (cx, cy).
ensure_scroll_y(cy) ==
    Max(0, IF cy < scroll_y THEN cy
           ELSE IF cy >= scroll_y + status_line THEN cy - status_line + 1
           ELSE scroll_y)

ensure_scroll_x(cx) ==
    Max(0, IF cx < scroll_x THEN cx
           ELSE IF cx >= scroll_x + visible_width THEN cx - visible_width + 1
           ELSE scroll_x)

ensure_cursor_visible(cx, cy) ==
    /\ scroll_y' = ensure_scroll_y(cy)
    /\ scroll_x' = ensure_scroll_x(cx)

\* What the keys and commands of the session leave alone.
SessionFrame == UNCHANGED <<termVars, fs, raised, running, callVars>>

MoveCursorUp ==
    /\ running
    /\ IF cursor_y > 0
       THEN /\ cursor_y' = cursor_y - 1
            /\ cursor_x' = adjust_cursor_x(lines, cursor_x, cursor_y - 1)
            /\ ensure_cursor_visible(cursor_x', cursor_y')
       ELSE UNCHANGED <<curVars, viewVars>>
    /\ UNCHANGED <<bufVars, ed_modified, current_file, last_search>>
    /\ SessionFrame

MoveCursorDown ==
    /\ running
    /\ IF cursor_y < Len(lines) - 1
       THEN /\ cursor_y' = cursor_y + 1
            /\ cursor_x' = adjust_cursor_x(lines, cursor_x, cursor_y + 1)
            /\ ensure_cursor_visible(cursor_x', cursor_y')
       ELSE UNCHANGED <<curVars, viewVars>>
    /\ UNCHANGED <<bufVars, ed_modified, current_file, last_search>>
    /\ SessionFrame

\* Left that stops at column 0 of every line.
MoveCursorLeftNoWrap ==
    /\ running
    /\ cursor_x' = Max(0, cursor_x - 1)
    /\ cursor_y' = cursor_y
    /\ ensure_cursor_visible(cursor_x', cursor_y')
    /\ UNCHANGED <<bufVars, ed_modified, current_file, last_search>>
    /\ SessionFrame

MoveCursorLeft ==
    /\ running
    /\ IF cursor_x > 0
       THEN cursor_x' = cursor_x - 1 /\ cursor_y' = cursor_y
       ELSE IF cursor_y > 0
       THEN cursor_y' = cursor_y - 1 /\ cursor_x' = Len(lines[cursor_y])
       ELSE UNCHANGED curVars
    /\ ensure_cursor_visible(cursor_x', cursor_y')
    /\ UNCHANGED <<bufVars, ed_modified, current_file, last_search>>
    /\ SessionFrame

MoveCursorRight ==
    /\ running
    /\ IF cursor_x < Len(lines[cursor_y + 1])
       THEN cursor_x' = cursor_x + 1 /\ cursor_y' = cursor_y
       ELSE IF cursor_y < Len(lines) - 1
       THEN cursor_y' = cursor_y + 1 /\ cursor_x' = 0
       ELSE UNCHANGED curVars
    /\ ensure_cursor_visible(cursor_x', cursor_y')
    /\ UNCHANGED <<bufVars, ed_modified, current_file, last_search>>
    /\ SessionFrame

MoveCursorHome ==
    /\ running
    /\ cursor_x' = 0
    /\ cursor_y' = cursor_y
    /\ ensure_cursor_visible(cursor_x', cursor_y')
    /\ UNCHANGED <<bufVars, ed_modified, current_file, last_search>>
    /\ SessionFrame

MoveCursorEnd ==
    /\ running
    /\ cursor_x' = Len(lines[cursor_y + 1])
    /\ cursor_y' = cursor_y
    /\ ensure_cursor_visible(cursor_x', cursor_y')
    /\ UNCHANGED <<bufVars, ed_modified, current_file, last_search>>
    /\ SessionFrame

MovePageUp ==
    /\ running
    /\ cursor_y' = Max(0, cursor_y - (status_line - 1))
    /\ cursor_x' = adjust_cursor_x(lines, cursor_x, cursor_y')
    /\ ensure_cursor_visible(cursor_x', cursor_y')
    /\ UNCHANGED <<bufVars, ed_modified, current_file, last_search>>
    /\ SessionFrame

MovePageDown ==
    /\ running
    /\ cursor_y' = Min(Len(lines) - 1, cursor_y + (status_line - 1))
    /\ cursor_x' = adjust_cursor_x(lines, cursor_x, cursor_y')
    /\ ensure_cursor_visible(cursor_x', cursor_y')
    /\ UNCHANGED <<bufVars, ed_modified, current_file, last_search>>
    /\ SessionFrame

\* _insert_char
insert_char_key(char) ==
    /\ running
    /\ IF ValidLine(lines, cursor_y)
       THEN /\ BufEdited(insert_char(lines, cursor_y, cursor_x, char))
            /\ cursor_x' = cursor_x + 1
            /\ cursor_y' = cursor_y
            /\ ed_modified' = TRUE
            /\ ensure_cursor_visible(cursor_x', cursor_y')
       ELSE UNCHANGED <<bufVars, curVars, viewVars, ed_modified>>
    /\ UNCHANGED <<current_file, last_search>>
    /\ SessionFrame

\* A printable key; the model stops typing at MaxChars characters, and
\* when the column has run past MaxChars.
InsertChar(char) ==
    /\ SumLen(lines) < MaxChars
    /\ cursor_x <= MaxChars
    /\ insert_char_key(char)

\* _insert_newline
insert_newline_key ==
    /\ running
    /\ IF ValidLine(lines, cursor_y)
       THEN /\ BufEdited(insert_newline(lines, cursor_y, cursor_x))
            /\ cursor_y' = cursor_y + 1
            /\ cursor_x' = 0
            /\ ed_modified' = TRUE
            /\ ensure_cursor_visible(cursor_x', cursor_y')
       ELSE UNCHANGED <<bufVars, curVars, viewVars, ed_modified>>
    /\ UNCHANGED <<current_file, last_search>>
    /\ SessionFrame

\* The Enter key; the model stops at MaxLines lines.
InsertNewline ==
    /\ Len(lines) < MaxLines
    /\ insert_newline_key

\* TextBuffer.delete_char, as a step on the buffer.
buf_delete_char(line_num, col) ==
    IF delete_char_applies(lines, line_num, col)
    THEN BufEdited(delete_char(lines, line_num, col))
    ELSE UNCHANGED bufVars

\* TextBuffer.join_lines, as a step on the buffer.
buf_join_lines(line_num) ==
    IF join_lines_applies(lines, line_num)
    THEN BufEdited(join_lines(lines, line_num))
    ELSE UNCHANGED bufVars

\* _delete_char_back reading the length of the previous line after the
\* join.
DeleteCharBackJoinedLength ==
    /\ running
    /\ IF cursor_x > 0
       THEN /\ buf_delete_char(cursor_y, cursor_x - 1)
            /\ cursor_x' = cursor_x - 1
            /\ cursor_y' = cursor_y
            /\ ed_modified' = TRUE
       ELSE IF cursor_y > 0
       THEN /\ buf_join_lines(cursor_y - 1)
            /\ cursor_y' = cursor_y - 1
            /\ cursor_x' = Len(lines'[cursor_y])
            /\ ed_modified' = TRUE
       ELSE UNCHANGED <<bufVars, curVars, ed_modified>>
    /\ ensure_cursor_visible(cursor_x', cursor_y')
    /\ UNCHANGED <<current_file, last_search>>
    /\ SessionFrame

\* _delete_char_back
DeleteCharBack ==
    /\ running
    /\ IF cursor_x > 0
       THEN /\ buf_delete_char(cursor_y, cursor_x - 1)
            /\ cursor_x' = cursor_x - 1
            /\ cursor_y' = cursor_y
            /\ ed_modified' = TRUE
       ELSE IF cursor_y > 0
       THEN /\ buf_join_lines(cursor_y - 1)
            /\ cursor_y' = cursor_y - 1
            /\ cursor_x' = Len(lines[cursor_y])
            /\ ed_modified' = TRUE
       ELSE UNCHANGED <<bufVars, curVars, ed_modified>>
    /\ ensure_cursor_visible(cursor_x', cursor_y')
    /\ UNCHANGED <<current_file, last_search>>
    /\ SessionFrame

DeleteCharForward ==
    /\ running
    /\ IF cursor_x < Len(lines[cursor_y + 1])
       THEN buf_delete_char(cursor_y, cursor_x) /\ ed_modified' = TRUE
       ELSE IF cursor_y < Len(lines) - 1
       THEN buf_join_lines(cursor_y) /\ ed_modified' = TRUE
       ELSE UNCHANGED <<bufVars, ed_modified>>
    /\ UNCHANGED curVars
    /\ ensure_cursor_visible(cursor_x, cursor_y)
    /\ UNCHANGED <<current_file, last_search>>
    /\ SessionFrame

\* _update_dimensions: the terminal reports h rows and w columns.
UpdateDimensions(h, w) ==
    /\ running
    /\ <<h, w>> # <<height, width>>
    /\ height' = h
    /\ width' = w
    /\ UNCHANGED <<bufVars, curVars, viewVars, edVars, show_line_numbers, fs,
                   raised, callVars>>

----------------------------------------------------------------------------
(* CommandParser: the commands, with their arguments already parsed.  *)

\* editor.last_search before any :f or :fs (the attribute does not exist).
NoSearch == [has |-> FALSE, text |-> <<>>, cs |-> TRUE, ww |-> FALSE]
Search(text, cs, ww) == [has |-> TRUE, text |-> text, cs |-> cs, ww |-> ww]

\* The cursor goes to the start of a match.
GoToMatch(result) ==
    /\ cursor_y' = result[1]
    /\ cursor_x' = result[2]
    /\ ensure_cursor_visible(cursor_x', cursor_y')

\* :g <n>; n is int(args[0]).
CmdGoto(n) ==
    /\ running
    /\ IF n - 1 < 0
       THEN UNCHANGED <<curVars, viewVars>>
       ELSE /\ cursor_y' = Min(n - 1, Len(lines) - 1)
            /\ cursor_x' = 0
            /\ ensure_cursor_visible(cursor_x', cursor_y')
    /\ UNCHANGED <<bufVars, ed_modified, current_file, last_search>>
    /\ SessionFrame

\* :f <text>
CmdFind(text) ==
    /\ running
    /\ last_search' = Search(text, TRUE, FALSE)
    /\ LET result == find_text(lines, text, cursor_y, cursor_x + 1,
                               TRUE, FALSE, TRUE)
           again  == find_text(lines, text, 0, 0, TRUE, FALSE, TRUE)
       IN  IF result # NoMatch THEN GoToMatch(result)
           ELSE IF again # NoMatch THEN GoToMatch(again)
           ELSE UNCHANGED <<curVars, viewVars>>
    /\ UNCHANGED <<bufVars, ed_modified, current_file>>
    /\ SessionFrame

\* :fs <text> [-i] [-w]
CmdFindAdvanced(text, cs, ww) ==
    /\ running
    /\ last_search' = Search(text, cs, ww)
    /\ LET result == find_text(lines, text, cursor_y, cursor_x + 1, cs, ww, TRUE)
       IN  IF result # NoMatch THEN GoToMatch(result)
           ELSE UNCHANGED <<curVars, viewVars>>
    /\ UNCHANGED <<bufVars, ed_modified, current_file>>
    /\ SessionFrame

\* :fn
CmdFindNext ==
    /\ running
    /\ IF ~last_search.has
       THEN UNCHANGED <<curVars, viewVars>>
       ELSE LET result == find_text(lines, last_search.text, cursor_y,
                                    cursor_x + 1, last_search.cs,
                                    last_search.ww, TRUE)
            IN  IF result # NoMatch THEN GoToMatch(result)
                ELSE UNCHANGED <<curVars, viewVars>>
    /\ UNCHANGED <<bufVars, ed_modified, current_file, last_search>>
    /\ SessionFrame

\* :fp, lines 553-559: the last result before the cursor.
previous_result(all_results, cy, cx) ==
    LET before(r) == r[1] < cy \/ (r[1] = cy /\ r[2] < cx)
        stop == {k \in 1..Len(all_results) : ~before(all_results[k])}
        n    == IF stop = {} THEN Len(all_results) ELSE SetMin(stop) - 1
    IN  IF n = 0 THEN NoMatch ELSE all_results[n]

CmdFindPrevious ==
    /\ running
    /\ IF ~last_search.has
       THEN UNCHANGED <<curVars, viewVars>>
       ELSE LET all_results == find_all_occurrences(lines, last_search.text,
                                                    last_search.cs,
                                                    last_search.ww)
                result == previous_result(all_results, cursor_y, cursor_x)
            IN  IF result # NoMatch THEN GoToMatch(result)
                ELSE UNCHANGED <<curVars, viewVars>>
    /\ UNCHANGED <<bufVars, ed_modified, current_file, last_search>>
    /\ SessionFrame

\* :r <old> <new>; the model does not grow the document past MaxChars.
CmdReplace(old_text, new_text) ==
    /\ running
    /\ LET result == find_text(lines, old_text, cursor_y, cursor_x,
                               TRUE, FALSE, TRUE)
       IN  IF result # NoMatch
           THEN /\ SumLen(replace_text(lines, new_text, result[1], result[2],
                                       result[3])) <= MaxChars
                /\ BufEdited(replace_text(lines, new_text, result[1], result[2],
                                          result[3]))
                /\ cursor_y' = result[1]
                /\ cursor_x' = result[2] + Len(new_text)
                /\ ed_modified' = TRUE
                /\ ensure_cursor_visible(cursor_x', cursor_y')
           ELSE UNCHANGED <<bufVars, curVars, viewVars, ed_modified>>
    /\ UNCHANGED <<current_file, last_search>>
    /\ SessionFrame

\* TextBuffer.replace_all, as a step on the buffer.
buf_replace_all(old_text, new_text, cs, ww) ==
    IF replace_all_raises(old_text, new_text, cs, ww) THEN UNCHANGED bufVars
    ELSE IF replace_all_count(lines, old_text, new_text, cs, ww) > 0
    THEN BufEdited(replace_all_lines(lines, old_text, new_text, cs, ww))
    ELSE UNCHANGED bufVars

\* :ra <old> <new> [-i] [-w]
CmdReplaceAll(old_text, new_text, cs, ww) ==
    /\ running
    /\ SumLen(replace_all_lines(lines, old_text, new_text, cs, ww)) <= MaxChars
    /\ buf_replace_all(old_text, new_text, cs, ww)
    /\ ed_modified' =
           IF /\ ~replace_all_raises(old_text, new_text, cs, ww)
              /\ replace_all_count(lines, old_text, new_text, cs, ww) > 0
           THEN TRUE ELSE ed_modified
    /\ UNCHANGED <<curVars, viewVars, current_file, last_search>>
    /\ SessionFrame

\* :o <filename> (open_file): a failed load_file is reported and nothing
\* of the editor changes.
CmdOpen(path) ==
    /\ running
    /\ load_file(path, fs[path])
    /\ IF load_raises(fs[path])
       THEN UNCHANGED <<curVars, viewVars, ed_modified, current_file>>
       ELSE /\ current_file' = path
            /\ ed_modified' = FALSE
            /\ cursor_x' = 0
            /\ cursor_y' = 0
            /\ scroll_x' = 0
            /\ scroll_y' = 0
    /\ UNCHANGED last_search
    /\ SessionFrame

\* :ln
CmdLineNumbers ==
    /\ running
    /\ show_line_numbers' = ~show_line_numbers
    /\ UNCHANGED <<bufVars, curVars, viewVars, edVars, height, width, fs,
                   raised, callVars>>

----------------------------------------------------------------------------
(* The editing session.  *)

\* What the terminal may report (getmaxyx): 1 or 2 text rows, and a width
\* that leaves 2 columns beside the line numbers.
Heights == {3, 4}
Widths  == {7}

\* The option sets of :fs and :ra: <<case_sensitive, whole_word>>.
SessionFlags == {<<FALSE, FALSE>>, <<TRUE, TRUE>>}

\* The patterns of :f, :fs, and the <old, new> pairs of :r and :ra.
SessionPatterns == {<<"a">>, <<"a", "b">>}
SessionReplacements == {<< <<"a", "b">>, <<"a">> >>, << <<"a">>, <<"b">> >>}

\* The paths of the session: a file of two lines, and a directory.
SessionFs == [p \in {"f", "d"} |->
                 IF p = "f" THEN RegularFile(<<"a", LF, "b">>) ELSE Directory]

\* TextBuffer.__init__
InitBuffer ==
    /\ lines = <<<<>>>>
    /\ filename = None
    /\ encoding = "utf-8"
    /\ line_ending = <<LF>>
    /\ modified = FALSE
    /\ total_chars = 0
    /\ total_lines = 1
    /\ raised = FALSE

\* AxiomEditor.__init__
InitEditor ==
    /\ cursor_x = 0
    /\ cursor_y = 0
    /\ scroll_x = 0
    /\ scroll_y = 0
    /\ height \in Heights
    /\ width \in Widths
    /\ show_line_numbers = TRUE
    /\ ed_modified = FALSE
    /\ current_file = None
    /\ running = TRUE
    /\ last_search = NoSearch
    /\ last_op = "none"

Init ==
    /\ InitBuffer
    /\ InitEditor
    /\ fs = SessionFs
    /\ NoCall
    /\ query = NoQuery
    /\ found = NoResult

\* _handle_edit_input dispatches one key; ':' runs one command.  last_op
\* records what was handled: a movement key, an edit key, a goto, find,
\* replace or open that moved the cursor, or anything else.
Handled(kind) == last_op' = kind

HandledCommand ==
    last_op' = IF <<cursor_x, cursor_y>>' # <<cursor_x, cursor_y>>
               THEN "command" ELSE "other"

Next ==
    \/ MoveCursorUp /\ Handled("move")
    \/ MoveCursorDown /\ Handled("move")
    \/ MoveCursorLeft /\ Handled("move")
    \/ MoveCursorRight /\ Handled("move")
    \/ MoveCursorHome /\ Handled("move")
    \/ MoveCursorEnd /\ Handled("move")
    \/ MovePageUp /\ Handled("move")
    \/ MovePageDown /\ Handled("move")
    \/ \E char \in Keys : InsertChar(char) /\ Handled("edit")
    \/ InsertNewline /\ Handled("edit")
    \/ DeleteCharBack /\ Handled("edit")
    \/ DeleteCharForward /\ Handled("edit")
    \/ \E h \in Heights, w \in Widths : UpdateDimensions(h, w) /\ Handled("other")
    \/ CmdLineNumbers /\ Handled("other")
    \/ \E n \in 0..(MaxLines + 1) : CmdGoto(n) /\ HandledCommand
    \/ \E text \in SessionPatterns : CmdFind(text) /\ HandledCommand
    \/ \E text \in SessionPatterns, o \in SessionFlags :
           CmdFindAdvanced(text, o[1], o[2]) /\ HandledCommand
    \/ CmdFindNext /\ HandledCommand
    \/ CmdFindPrevious /\ HandledCommand
    \/ \E r \in SessionReplacements : CmdReplace(r[1], r[2]) /\ HandledCommand
    \/ \E r \in SessionReplacements, o \in SessionFlags :
           CmdReplaceAll(r[1], r[2], o[1], o[2]) /\ Handled("other")
    \/ \E path \in DOMAIN fs : CmdOpen(path) /\ HandledCommand

Spec == Init /\ [][Next]_vars

----------------------------------------------------------------------------
(* Cursor and viewport properties of the session (specification Spec).  *)

\* The cursor is on a line of the document, at a column of that line or
\* just after its last character.
CursorInBounds ==
    /\ 0 <= cursor_y
    /\ cursor_y < Len(lines)
    /\ 0 <= cursor_x
    /\ cursor_x <= Len(lines[cursor_y + 1])

\* The cursor cell is in the visible rectangle.
CursorVisible ==
    /\ scroll_y <= cursor_y
    /\ cursor_y < scroll_y + status_line
    /\ scroll_x <= cursor_x
    /\ cursor_x < scroll_x + visible_width

\* C1: in every reachable state of the session the cursor satisfies
\* 0 <= cursor_y < len(lines) and 0 <= cursor_x <= len(lines[cursor_y]).
C1_CursorAlwaysInBounds == CursorInBounds

\* C3: after every movement key and every edit key, and after every goto,
\* find, replace or open that moved the cursor, the cursor cell lies inside
\* the visible rectangle, whose width is the terminal width less the gutter
\* when line numbers are shown.
C3_VisibleAfterCursorOp ==
    last_op \in {"move", "edit", "command"} => CursorVisible

----------------------------------------------------------------------------
(* The document store on its own (specification SpecBuffer): the calls of  *)
(* the TextBuffer interface with any arguments, also out-of-range ones.    *)
(* raised says whether the last call raised AxiomError.                    *)

BufferFrame ==
    UNCHANGED <<curVars, viewVars, termVars, edVars, last_op, fs, callVars>>

\* insert_char and insert_newline on an invalid line number: the
\* AxiomError raised before anything is assigned.
ReturnsSilently == UNCHANGED bufVars /\ raised' = FALSE
RaisesInvalidLine == UNCHANGED bufVars /\ raised' = TRUE

\* TextBuffer.insert_char, as a step on the buffer.
buf_insert_char(line_num, col, char) ==
    IF ValidLine(lines, line_num)
    THEN BufEdited(insert_char(lines, line_num, col, char)) /\ raised' = FALSE
    ELSE RaisesInvalidLine

\* TextBuffer.insert_newline, as a step on the buffer.
buf_insert_newline(line_num, col) ==
    IF ValidLine(lines, line_num)
    THEN BufEdited(insert_newline(lines, line_num, col)) /\ raised' = FALSE
    ELSE RaisesInvalidLine

\* insert_char(line_num, col, char)
BufInsertChar(line_num, col, char) ==
    /\ SumLen(lines) < MaxChars
    /\ buf_insert_char(line_num, col, char)
    /\ BufferFrame

\* delete_char(line_num, col)
BufDeleteChar(line_num, col) ==
    /\ buf_delete_char(line_num, col)
    /\ raised' = FALSE
    /\ BufferFrame

\* insert_newline(line_num, col)
BufInsertNewline(line_num, col) ==
    /\ Len(lines) < MaxLines
    /\ buf_insert_newline(line_num, col)
    /\ BufferFrame

\* join_lines(line_num)
BufJoinLines(line_num) ==
    /\ buf_join_lines(line_num)
    /\ raised' = FALSE
    /\ BufferFrame

\* replace_all(old_text, new_text, case_sensitive, regex=False, whole_word)
BufReplaceAll(old_text, new_text, cs, ww) ==
    /\ SumLen(replace_all_lines(lines, old_text, new_text, cs, ww)) <= MaxChars
    /\ buf_replace_all(old_text, new_text, cs, ww)
    /\ raised' = replace_all_raises(old_text, new_text, cs, ww)
    /\ BufferFrame

\* replace_text(old_text, new_text, line_num, start_col, end_col)
BufReplaceText(new_text, line_num, start_col, end_col) ==
    /\ IF ValidLine(lines, line_num)
       THEN /\ SumLen(replace_text(lines, new_text, line_num, start_col,
                                   end_col)) <= MaxChars
            /\ BufEdited(replace_text(lines, new_text, line_num, start_col,
                                      end_col))
       ELSE UNCHANGED bufVars
    /\ raised' = FALSE
    /\ BufferFrame

\* load_file(filename)
BufLoad(path) ==
    /\ load_file(path, fs[path])
    /\ raised' = load_raises(fs[path])
    /\ BufferFrame

\* The paths of the document store: a file of two lines, an empty file, a
\* path that does not exist, one that cannot be resolved either, a
\* directory, a file that cannot be opened and a file over the size limit.
BufferFs ==
    [p \in {"f", "e", "n", "x", "d", "u", "b"} |->
        CASE p = "f" -> RegularFile(<<"a", LF, "b">>)
          [] p = "e" -> RegularFile(<<>>)
          [] p = "n" -> Missing
          [] p = "x" -> Unresolvable
          [] p = "d" -> Directory
          [] p = "u" -> [RegularFile(<<"a">>) EXCEPT !.readable = FALSE]
          [] p = "b" -> [RegularFile(<<"a">>) EXCEPT !.big = TRUE]]

\* The line numbers and columns the calls are made with.
ArgLines == (0 - 1)..MaxLines
ArgCols  == (0 - 1)..(MaxChars + 1)
ArgTexts == {<<"a">>, <<"b">>, <<"a", "b">>}

InitBufferOnly ==
    /\ InitBuffer
    /\ InitEditor
    /\ height = 4
    /\ width = 7
    /\ fs = BufferFs
    /\ NoCall
    /\ query = NoQuery
    /\ found = NoResult

NextBuffer ==
    \/ \E n \in ArgLines, c \in ArgCols, char \in Keys : BufInsertChar(n, c, char)
    \/ \E n \in ArgLines, c \in ArgCols : BufDeleteChar(n, c)
    \/ \E n \in ArgLines, c \in ArgCols : BufInsertNewline(n, c)
    \/ \E n \in ArgLines : BufJoinLines(n)
    \/ \E o \in ArgTexts, n \in ArgTexts, cs \in BOOLEAN, ww \in BOOLEAN :
           BufReplaceAll(o, n, cs, ww)
    \/ \E t \in ArgTexts, n \in ArgLines, c \in ArgCols, e \in ArgCols :
           BufReplaceText(t, n, c, e)
    \/ \E path \in DOMAIN fs : BufLoad(path)

SpecBuffer == InitBufferOnly /\ [][NextBuffer]_vars

\* C2: the document is never empty: after creation and after any sequence
\* of load, insert_char, delete_char, insert_newline, join_lines,
\* replace_all and replace_text calls, failing ones included, len(lines) >= 1.
C2_NeverEmpty == Len(lines) >= 1

\* An empty file has been loaded, and the document is one empty line.
C2_Witness == filename = "e" /\ lines = <<<<>>>> /\ ~modified /\ ~raised

----------------------------------------------------------------------------
(* Saving and loading (specification SpecFile).  save_file is modelled     *)
(* step by step, so that the file system can be looked at while a save is  *)
(* in progress and a failure can strike at each step; load_file is one     *)
(* step.  The buffer to be saved is any small document with any of the     *)
(* three line endings (:eol) and one of two encodings (:enc).  The model   *)
(* takes unlink of an existing temporary file to succeed, and looks only   *)
(* at failures that are an Exception.                                      *)

\* file_path.with_suffix(file_path.suffix + '.tmp')
temp_file_same(path) == path
temp_file_of(path) == path \o ".tmp"

\* self.line_ending.join(self.lines)
save_content == str_join(line_ending, lines)

\* temp_file.replace(file_path)
replace_file(fsys, src, dst) ==
    IF src = dst THEN fsys
    ELSE [fsys EXCEPT ![dst] = fsys[src], ![src] = Missing]

\* The except branch of save_file: if temp_file.exists(): temp_file.unlink()
cleanup_skipped(fsys, temp) == fsys
cleanup(fsys, temp) ==
    IF fsys[temp].kind # "missing" THEN [fsys EXCEPT ![temp] = Missing]
    ELSE fsys

FileFrame ==
    UNCHANGED <<curVars, viewVars, termVars, edVars, last_op, query, found>>

\* save_file(filename), lines 97-101: the name is bound, then checked.
SaveBegin(arg) ==
    /\ pc = "idle"
    /\ call' = "save"
    /\ round_trip' = FALSE
    /\ filename' = IF arg # None THEN arg ELSE filename
    /\ pre' = [buf  |-> BufferState,
               file |-> IF filename' = None THEN Missing ELSE fs[filename'],
               path |-> filename']
    /\ IF filename' = None
       THEN pc' = "idle" /\ raised' = TRUE /\ failed_at' = "filename"
       ELSE pc' = "mkdir" /\ raised' = FALSE /\ failed_at' = "none"
    /\ UNCHANGED <<lines, encoding, line_ending, modified, total_chars,
                   total_lines, fs>>
    /\ FileFrame

\* A step of save_file fails outside the inner try: the call raises.
SaveRaises(step) ==
    /\ pc' = "idle"
    /\ raised' = TRUE
    /\ failed_at' = step

\* A step of save_file fails inside the inner try: on to the except branch.
SaveFails(step) ==
    /\ pc' = "cleanup"
    /\ failed_at' = step
    /\ UNCHANGED raised

\* file_path.parent.mkdir(parents=True, exist_ok=True)
SaveMkdir(ok) ==
    /\ pc = "mkdir"
    /\ IF ok THEN pc' = "open" /\ UNCHANGED <<raised, failed_at>>
       ELSE SaveRaises("mkdir")
    /\ UNCHANGED <<bufVars, fs, call, pre, round_trip>>
    /\ FileFrame

\* open(temp_file, 'w', newline=''): the temporary file is created empty,
\* or truncated.
SaveOpenTemp(ok) ==
    /\ pc = "open"
    /\ IF ok
       THEN /\ fs' = [fs EXCEPT ![temp_file_of(filename)] = RegularFile(<<>>)]
            /\ pc' = "write"
            /\ UNCHANGED <<raised, failed_at>>
       ELSE SaveFails("open") /\ UNCHANGED fs
    /\ UNCHANGED <<bufVars, call, pre, round_trip>>
    /\ FileFrame

\* f.write(content) reaches the file one character at a time.
SaveWrite(ok) ==
    /\ pc = "write"
    /\ LET temp == temp_file_of(filename)
           n    == Len(fs[temp].data)
       IN  /\ n < Len(save_content)
           /\ IF ok
              THEN /\ fs' = [fs EXCEPT ![temp].data = Append(@, save_content[n + 1])]
                   /\ UNCHANGED <<pc, raised, failed_at>>
              ELSE SaveFails("write") /\ UNCHANGED fs
    /\ UNCHANGED <<bufVars, call, pre, round_trip>>
    /\ FileFrame

\* The with block ends when everything is written.
SaveClose ==
    /\ pc = "write"
    /\ Len(fs[temp_file_of(filename)].data) = Len(save_content)
    /\ pc' = "replace"
    /\ UNCHANGED <<bufVars, fs, raised, call, pre, failed_at, round_trip>>
    /\ FileFrame

\* temp_file.replace(file_path); self.modified = False
SaveReplace(ok) ==
    /\ pc = "replace"
    /\ IF ok
       THEN /\ fs' = replace_file(fs, temp_file_of(filename), filename)
            /\ modified' = FALSE
            /\ pc' = "idle"
            /\ UNCHANGED <<raised, failed_at>>
       ELSE SaveFails("replace") /\ UNCHANGED <<fs, modified>>
    /\ UNCHANGED <<lines, filename, encoding, line_ending, total_chars,
                   total_lines, call, pre, round_trip>>
    /\ FileFrame

\* except Exception: clean up the temporary file and raise.
SaveCleanup ==
    /\ pc = "cleanup"
    /\ fs' = cleanup(fs, temp_file_of(filename))
    /\ pc' = "idle"
    /\ raised' = TRUE
    /\ UNCHANGED <<bufVars, call, pre, failed_at, round_trip>>
    /\ FileFrame

\* load_file(path)
FileLoad(path) ==
    /\ pc = "idle"
    /\ call' = "load"
    /\ pre' = [buf |-> BufferState, file |-> fs[path], path |-> path]
    /\ round_trip' = (call = "save" /\ ~raised /\ path = filename)
    /\ load_file(path, fs[path])
    /\ raised' = load_raises(fs[path])
    /\ failed_at' = "none"
    /\ UNCHANGED <<pc, fs>>
    /\ FileFrame

\* The lines of the documents to save: up to MaxChars characters.
RECURSIVE Repeat(_, _)
Repeat(c, n) == IF n = 0 THEN <<>> ELSE <<c>> \o Repeat(c, n - 1)

FileLines == {Repeat("a", n) : n \in 0..MaxChars}

\* The documents to save, empty lines at the end included.
FileDocs ==
    UNION {{L \in [1..k -> FileLines] : SumLen(L) <= MaxChars} : k \in 1..MaxLines}

LineEndings == {<<LF>>, <<CR, LF>>, <<CR>>}

\* The paths of save and load: the file "f" and its temporary file, which
\* a save that was killed may have left behind; a path that does not exist,
\* one that cannot be resolved either, a directory, a file that cannot be
\* opened and a file over the size limit.
FileFs(stale) ==
    [p \in {"f", "f.tmp", "n", "n.tmp", "x", "d", "u", "b"} |->
        CASE p = "f" -> RegularFile(<<"b">>)
          [] p = "f.tmp" -> IF stale THEN RegularFile(<<"b", "b">>) ELSE Missing
          [] p = "n" -> Missing
          [] p = "x" -> Unresolvable
          [] p = "n.tmp" -> Missing
          [] p = "d" -> Directory
          [] p = "u" -> [RegularFile(<<"a">>) EXCEPT !.readable = FALSE]
          [] p = "b" -> [RegularFile(<<"a">>) EXCEPT !.big = TRUE]]

LoadPaths == {"f", "n", "x", "d", "u", "b"}

InitFile ==
    /\ lines \in FileDocs
    /\ filename \in {None, "f"}
    /\ encoding \in {"utf-8", "latin-1"}
    /\ line_ending \in LineEndings
    /\ modified = TRUE
    /\ total_lines = Len(lines)
    /\ total_chars = SumLen(lines) + (Len(lines) - 1)
    /\ raised = FALSE
    /\ InitEditor
    /\ height = 4
    /\ width = 7
    /\ fs \in {FileFs(stale) : stale \in BOOLEAN}
    /\ NoCall
    /\ query = NoQuery
    /\ found = NoResult

NextFile ==
    \/ \E arg \in {None, "f"} : SaveBegin(arg)
    \/ \E ok \in BOOLEAN : SaveMkdir(ok)
    \/ \E ok \in BOOLEAN : SaveOpenTemp(ok)
    \/ \E ok \in BOOLEAN : SaveWrite(ok)
    \/ SaveClose
    \/ \E ok \in BOOLEAN : SaveReplace(ok)
    \/ SaveCleanup
    \/ \E path \in LoadPaths : FileLoad(path)

SpecFile == InitFile /\ [][NextFile]_vars

\* A save_file call has returned, or raised.
SaveEnded == call = "save" /\ pc = "idle"

\* C4: a load that follows a successful save of the same path gives back
\* the lines that were saved, and the line ending that was saved.  (The
\* file of a one-line document holds no line ending, so the line ending is
\* compared for documents of two lines or more.)
C4_SaveLoadRoundTrip ==
    (round_trip /\ ~raised) =>
        /\ lines = pre.buf.lines
        /\ Len(pre.buf.lines) > 1 => line_ending = pre.buf.line_ending

\* C5: at every step of a save, and after it, the target holds the complete
\* content it had before the call or the complete new content; the new
\* content once the save has returned and the old if it raised.
C5_TargetOldOrNew ==
    (call = "save" /\ filename # None) =>
        /\ fs[filename] \in {pre.file, RegularFile(save_content)}
        /\ (SaveEnded /\ raised) => fs[filename] = pre.file
        /\ (SaveEnded /\ ~raised) => fs[filename] = RegularFile(save_content)

\* A save is half way: part of the new content is in the temporary file
\* and the target is as it was.
C5_Witness ==
    /\ call = "save"
    /\ pc = "write"
    /\ fs["f.tmp"].data # <<>>
    /\ Len(fs["f.tmp"].data) < Len(save_content)
    /\ fs["f"] = RegularFile(<<"b">>)

C7_FailedSaveLeavesBuffer ==
    /\ (SaveEnded /\ raised) =>
           /\ lines = pre.buf.lines
           /\ filename = pre.buf.filename
           /\ encoding = pre.buf.encoding
           /\ line_ending = pre.buf.line_ending
           /\ modified = pre.buf.modified
    /\ (call = "save" /\ pre.buf.modified /\ ~modified) =>
           (SaveEnded /\ ~raised)

\* C8: a load that raised has left lines, filename, encoding, line_ending,
\* modified and the statistics as they were.
C8_FailedLoadLeavesBuffer ==
    (call = "load" /\ raised) => BufferState = pre.buf

----------------------------------------------------------------------------
(* Searching (specification SpecFind): one call of find_text or of         *)
(* find_all_occurrences on a document, with arguments drawn at the start.  *)

\* The documents searched: the small documents over a and b, lines of one
\* repeated letter, lines of mixed case, and the document of the scenario
\* of the specification.
RECURSIVE Words(_, _)
Words(alphabet, n) ==
    IF n = 0 THEN {<<>>}
    ELSE Words(alphabet, n - 1)
             \cup {Append(w, c) : w \in Words(alphabet, n - 1), c \in alphabet}

\* The longest line of one repeated letter.
MaxRun == 3

Scenario == << <<"a", "b", "c">>, <<"d", "e", "f">> >>

\* The document ["foo bar foo"], and foo, baz.
FooBarFoo ==
    << <<"f", "o", "o", " ", "b", "a", "r", " ", "f", "o", "o">> >>
Foo == <<"f", "o", "o">>
Baz == <<"b", "a", "z">>

FindDocs ==
    UNION {{L \in [1..k -> Words({"a", "b"}, MaxChars)] : SumLen(L) <= MaxChars}
              : k \in 1..MaxLines}
    \cup {<<Repeat("a", n)>> : n \in 1..MaxRun}
    \cup {<<w>> : w \in Words({"a", "A"}, MaxChars)}
    \cup {Scenario, FooBarFoo, <<<<Idot, "a", "b">>>>}

FindPatterns ==
    {<<"a">>, <<"b">>, <<"a", "a">>, <<"a", "b">>, <<"A">>, <<"a", "A">>,
     <<"d", "e">>, Foo}

\* The calls made on the document L: the start is a cursor position, or
\* the column after it (find is called with cursor_x + 1).
Queries(L) ==
    {q \in [pattern : FindPatterns, start_line : 0..(Len(L) - 1),
            start_col : 0..(SumLen(L) + 1), cs : BOOLEAN, ww : BOOLEAN,
            wrap : BOOLEAN] :
        q.start_col <= Len(L[q.start_line + 1]) + 1}

FindFrame ==
    UNCHANGED <<bufVars, curVars, viewVars, termVars, edVars, last_op, fs,
                raised, pc, call, pre, failed_at, round_trip, query>>

\* find_text(pattern, start_line, start_col, case_sensitive, regex=False,
\* whole_word, wrap_around)
FindText ==
    /\ found.op = "none"
    /\ found' = [op |-> "find",
                  value |-> find_text(lines, query.pattern, query.start_line,
                                      query.start_col, query.cs, query.ww,
                                      query.wrap)]
    /\ FindFrame

\* find_all_occurrences(pattern, case_sensitive, regex=False, whole_word)
FindAll ==
    /\ found.op = "none"
    /\ found' = [op |-> "find_all",
                  value |-> find_all_occurrences(lines, query.pattern,
                                                 query.cs, query.ww)]
    /\ FindFrame

\* The replacement texts: empty, one letter, a pattern doubled, baz and two
\* with a backslash.
FindReplacements ==
    {<<>>, <<"x">>, <<"a", "a">>, Baz, <<Backslash>>,
     <<Backslash, Backslash>>}

\* replace_all(old_text, new_text, case_sensitive, regex=False, whole_word);
\* found keeps what the call returned, pre the buffer it was made on.
ReplaceAll(new_text) ==
    /\ found.op = "none"
    /\ buf_replace_all(query.pattern, new_text, query.cs, query.ww)
    /\ raised' = replace_all_raises(query.pattern, new_text, query.cs, query.ww)
    /\ found' = [op |-> "replace_all",
                  value |-> IF raised' THEN NoMatch
                            ELSE <<replace_all_count(lines, query.pattern,
                                                     new_text, query.cs,
                                                     query.ww)>>,
                  new_text |-> new_text]
    /\ pre' = [buf |-> BufferState, file |-> Missing, path |-> None]
    /\ UNCHANGED <<curVars, viewVars, termVars, edVars, last_op, fs, pc, call,
                   failed_at, round_trip, query>>

InitFind ==
    /\ lines \in FindDocs
    /\ filename = None
    /\ encoding = "utf-8"
    /\ line_ending = <<LF>>
    /\ modified \in BOOLEAN
    /\ total_lines = Len(lines)
    /\ total_chars = SumLen(lines) + (Len(lines) - 1)
    /\ raised = FALSE
    /\ InitEditor
    /\ height = 4
    /\ width = 7
    /\ fs = SessionFs
    /\ NoCall
    /\ query \in Queries(lines)
    /\ found = NoResult

NextFind ==
    \/ FindText
    \/ FindAll
    \/ \E new_text \in FindReplacements : ReplaceAll(new_text)

SpecFind == InitFind /\ [][NextFind]_vars

\* The positions <<line, column>> where the pattern of the query occurs as
\* a substring, letter case ignored unless the query is case-sensitive.
Occurrences ==
    LET text(s) == IF query.cs THEN s ELSE lower(s)
    IN  {p \in (0..(Len(lines) - 1)) \X (0..SumLen(lines)) :
            OccursAt(text(lines[p[1] + 1]), text(query.pattern), p[2])}

\* Line-then-column order.
Precedes(p, q) == p[1] < q[1] \/ (p[1] = q[1] /\ p[2] < q[2])

First(S) == CHOOSE p \in S : \A q \in S \ {p} : Precedes(p, q)

MatchOf(p) == <<p[1], p[2], p[2] + Len(query.pattern)>>

QueryStart == <<query.start_line, query.start_col>>

\* What a find for the query is to return.
FirstFromStart ==
    LET later == {p \in Occurrences : ~Precedes(p, QueryStart)}
    IN  IF later # {} THEN MatchOf(First(later))
        ELSE IF query.wrap /\ QueryStart # <<0, 0>> /\ Occurrences # {}
        THEN MatchOf(First(Occurrences))
        ELSE NoMatch

C11_ReplaceCountIsFindAllCount ==
    (found.op = "replace_all" /\ ~raised) =>
        found.value[1] = Len(find_all_occurrences(pre.buf.lines, query.pattern,
                                                  query.cs, query.ww))

\* C10: the result of find_all is strictly increasing by (line, start
\* column), and of two consecutive results on one line the later starts at
\* or after the end of the earlier.
C10_FindAllNonOverlapping ==
    found.op = "find_all" =>
        \A k \in 1..(Len(found.value) - 1) :
            LET r == found.value[k]
                t == found.value[k + 1]
            IN  /\ Precedes(r, t)
                /\ r[1] = t[1] => t[2] >= r[3]

\* Whether the span of line starting at index i is a match of pat: the
\* same text, letter case ignored unless cs, and between word boundaries
\* when ww.
SpanMatches(line, pat, cs, ww, i) ==
    /\ i >= 0
    /\ i + Len(pat) <= Len(line)
    /\ IF cs THEN Slice(line, i, i + Len(pat)) = pat
             ELSE lower(Slice(line, i, i + Len(pat))) = lower(pat)
    /\ ww => WordBoundary(line, i) /\ WordBoundary(line, i + Len(pat))

\* One left-to-right scan of line from index start, replacing every match
\* met by new and going on after it: <<new text, number of matches>>.
RECURSIVE Substituted(_, _, _, _, _, _)
Substituted(line, pat, new, cs, ww, start) ==
    LET hits == {i \in start..Len(line) : SpanMatches(line, pat, cs, ww, i)}
    IN  IF hits = {} THEN <<SliceFrom(line, start), 0>>
        ELSE LET i    == SetMin(hits)
                 rest == Substituted(line, pat, new, cs, ww, i + Len(pat))
             IN  <<Slice(line, start, i) \o new \o rest[1], 1 + rest[2]>>

RECURSIVE Sum(_)
Sum(ns) == IF ns = <<>> THEN 0 ELSE Head(ns) + Sum(Tail(ns))

\* C12: replace_all returns; every line after it is the line before it with
\* every non-overlapping match, met scanning left to right once, replaced
\* by the new text; the value returned is the total number of matches;
\* with no match the lines, the statistics and modified are unchanged, and
\* otherwise modified is set.  On ["foo bar foo"], replacing foo by baz
\* returns 2 and leaves "baz bar baz".
C12_ReplaceAllSubstitutesAll ==
    found.op = "replace_all" =>
        LET before == pre.buf.lines
            sub(k) == Substituted(before[k], query.pattern, found.new_text,
                                  query.cs, query.ww, 0)
            count  == Sum([k \in 1..Len(before) |-> sub(k)[2]])
        IN  /\ ~raised
            /\ found.value = <<count>>
            /\ lines = [k \in 1..Len(before) |-> sub(k)[1]]
            /\ count = 0 => BufferState = pre.buf
            /\ count > 0 => modified
            /\ (before = FooBarFoo /\ query.pattern = Foo /\ found.new_text = Baz
                    /\ query.cs /\ ~query.ww)
                   => /\ found.value = <<2>>
                      /\ lines = << <<"b", "a", "z", " ", "b", "a", "r", " ",
                                      "b", "a", "z">> >>

\* The line with the spans of length olen starting at the indices of S
\* replaced by new; the spans do not overlap.
RECURSIVE SubstituteSpans(_, _, _, _)
SubstituteSpans(line, S, olen, new) ==
    IF S = {} THEN line
    ELSE LET i == CHOOSE x \in S : \A y \in S : y <= x
         IN  SubstituteSpans(Slice(line, 0, i) \o new \o SliceFrom(line, i + olen),
                             S \ {i}, olen, new)

\* after is before with some non-overlapping spans that match pat, letter
\* case ignored, replaced by new, and nothing else changed.
OnlyMatchedSpansChanged(before, after, pat, new) ==
    LET starts == {i \in 0..Len(before) : SpanMatches(before, pat, FALSE, FALSE, i)}
    IN  \E S \in SUBSET starts :
            /\ \A i \in S : \A j \in S : i < j => i + Len(pat) <= j
            /\ after = SubstituteSpans(before, S, Len(pat), new)

\* C13: a case-insensitive literal replace_all changes matched spans only:
\* every line after it is the line before it with some spans that match
\* the pattern, letter case ignored, replaced, and every character outside
\* those spans kept as it was and where it was.
C13_OnlyMatchedSpansChange ==
    (found.op = "replace_all" /\ ~query.cs /\ ~query.ww) =>
        /\ Len(lines) = Len(pre.buf.lines)
        /\ \A k \in 1..Len(lines) :
               OnlyMatchedSpansChanged(pre.buf.lines[k], lines[k], query.pattern,
                                       found.new_text)

\* C14: a case-insensitive literal find, whole-word or not, returns what
\* the case-sensitive find of the lower-cased pattern returns on the
\* lower-cased lines; so it finds an occurrence that differs from the
\* pattern in letter case only.
C14_CaseInsensitiveFind ==
    (found.op = "find" /\ ~query.cs) =>
        found.value = find_text([k \in 1..Len(lines) |-> lower(lines[k])],
                                lower(query.pattern), query.start_line,
                                query.start_col, TRUE, query.ww, query.wrap)

----------------------------------------------------------------------------
(* SpecEdit: one editing call of TextBuffer, or two in a row, on a         *)
(* document and with a line number and a column drawn at the start; query  *)
(* holds the arguments, pre the buffer before the first call.              *)

EditDocs ==
    UNION {{L \in [1..k -> Words(Keys, MaxChars)] : SumLen(L) <= MaxChars}
              : k \in 1..MaxLines}

EditArgs == [line : ArgLines, col : ArgCols]

EditFrame ==
    UNCHANGED <<curVars, viewVars, termVars, edVars, last_op, fs, failed_at,
                round_trip, found>>

\* The first call: the buffer before it is kept.
FirstCall(name) ==
    /\ pc = "idle"
    /\ pc' = "called"
    /\ call' = name
    /\ pre' = [buf |-> BufferState, file |-> Missing, path |-> None]
    /\ UNCHANGED query
    /\ EditFrame

\* insert_char(line_num, col, char)
CallInsertChar(char) ==
    /\ buf_insert_char(query.line, query.col, char)
    /\ FirstCall("insert_char")

\* delete_char(line_num, col)
CallDeleteChar ==
    /\ buf_delete_char(query.line, query.col)
    /\ raised' = FALSE
    /\ FirstCall("delete_char")

\* insert_newline(line_num, col)
CallInsertNewline ==
    /\ buf_insert_newline(query.line, query.col)
    /\ FirstCall("insert_newline")

\* join_lines(line_num)
CallJoinLines ==
    /\ buf_join_lines(query.line)
    /\ raised' = FALSE
    /\ FirstCall("join_lines")

\* replace_text(old_text, new_text, line_num, start_col, end_col): the
\* column drawn at the start is start_col; old_text is not read.
CallReplaceText(new_text, end_col) ==
    /\ IF ValidLine(lines, query.line)
       THEN BufEdited(replace_text(lines, new_text, query.line, query.col,
                                   end_col))
       ELSE UNCHANGED bufVars
    /\ raised' = FALSE
    /\ pc = "idle"
    /\ pc' = "called"
    /\ call' = "replace_text"
    /\ pre' = [buf |-> BufferState, file |-> Missing, path |-> None]
    /\ query' = [line |-> query.line, col |-> query.col,
                 end_col |-> end_col, new_text |-> new_text]
    /\ EditFrame

\* delete_char(line_num, col) after an insert_char(line_num, col, char)
\* that returned.
ThenDeleteChar ==
    /\ pc = "called"
    /\ call = "insert_char"
    /\ ~raised
    /\ buf_delete_char(query.line, query.col)
    /\ raised' = FALSE
    /\ pc' = "done"
    /\ call' = "insert_char;delete_char"
    /\ UNCHANGED <<pre, query>>
    /\ EditFrame

\* insert_newline(line_num, k) after a join_lines(line_num).
ThenInsertNewline(k) ==
    /\ pc = "called"
    /\ call = "join_lines"
    /\ buf_insert_newline(query.line, k)
    /\ pc' = "done"
    /\ call' = "join_lines;insert_newline"
    /\ query' = [query EXCEPT !.col = k]
    /\ UNCHANGED pre
    /\ EditFrame

\* The texts replace_text puts in: none, one character, two.
NewTexts == {<<>>, <<"b">>, <<"b", "a">>}

InitEdit ==
    /\ lines \in EditDocs
    /\ filename = None
    /\ encoding = "utf-8"
    /\ line_ending = <<LF>>
    /\ modified \in BOOLEAN
    /\ total_lines = Len(lines)
    /\ total_chars = SumLen(lines) + (Len(lines) - 1)
    /\ raised = FALSE
    /\ InitEditor
    /\ height = 4
    /\ width = 7
    /\ fs = SessionFs
    /\ NoCall
    /\ query \in EditArgs
    /\ found = NoResult

NextEdit ==
    \/ \E char \in Keys : CallInsertChar(char)
    \/ CallDeleteChar
    \/ CallInsertNewline
    \/ CallJoinLines
    \/ \E new_text \in NewTexts, end_col \in ArgCols :
           CallReplaceText(new_text, end_col)
    \/ ThenDeleteChar
    \/ \E k \in ArgCols : ThenInsertNewline(k)

SpecEdit == InitEdit /\ [][NextEdit]_vars

\* C15: on a valid line and with 0 <= col <= len(line), insert_char(line,
\* col, ch) followed by delete_char(line, col) leaves every line as it was
\* before the two calls.
C15_InsertThenDeleteRestores ==
    (/\ call = "insert_char;delete_char"
     /\ ValidLine(pre.buf.lines, query.line)
     /\ 0 <= query.col
     /\ query.col <= Len(pre.buf.lines[query.line + 1]))
        => lines = pre.buf.lines

\* A character was inserted at the end of a non-empty second line and
\* deleted again.
C15_Witness ==
    /\ call = "insert_char;delete_char"
    /\ query.line = 1
    /\ Len(pre.buf.lines) = 2
    /\ query.col = Len(pre.buf.lines[2])
    /\ query.col > 0
    /\ modified

\* C16: for a line n that is not the last, join_lines(n) followed by
\* insert_newline(n, k), k the length line n had, leaves the lines as they
\* were before the two calls.
C16_JoinThenSplitRestores ==
    (/\ call = "join_lines;insert_newline"
     /\ join_lines_applies(pre.buf.lines, query.line)
     /\ query.col = Len(pre.buf.lines[query.line + 1]))
        => /\ ~raised
           /\ lines = pre.buf.lines

\* Two non-empty lines were joined and split again.
C16_Witness ==
    /\ call = "join_lines;insert_newline"
    /\ ~raised
    /\ Len(pre.buf.lines) = 2
    /\ pre.buf.lines[1] # <<>>
    /\ pre.buf.lines[2] # <<>>
    /\ query.col = Len(pre.buf.lines[1])
    /\ Len(lines) = 2

\* C19: insert_char and insert_newline with a line number outside
\* [0, len(lines)) raise, and leave the lines, the statistics and modified
\* as they were.
C19_InvalidLineRaises ==
    (/\ call \in {"insert_char", "insert_newline"}
     /\ ~ValidLine(pre.buf.lines, query.line))
        => /\ raised
           /\ BufferState = pre.buf

\* insert_newline was called with the line number len(lines) on a document
\* of two lines, and raised.
C19_Witness ==
    /\ call = "insert_newline"
    /\ query.line = Len(pre.buf.lines)
    /\ Len(pre.buf.lines) = 2
    /\ raised

\* C20: delete_char with a line number outside [0, len(lines)) or a column
\* outside [0, len(line)), and join_lines on the last line or with a line
\* number out of range, return without an error and leave the lines, the
\* statistics and modified as they were.
C20_OutOfRangeIsNoOp ==
    (\/ /\ call = "delete_char"
        /\ \/ ~ValidLine(pre.buf.lines, query.line)
           \/ query.col < 0
           \/ query.col >= Len(pre.buf.lines[query.line + 1])
     \/ /\ call = "join_lines"
        /\ \/ ~ValidLine(pre.buf.lines, query.line)
           \/ query.line = Len(pre.buf.lines) - 1)
        => /\ ~raised
           /\ BufferState = pre.buf

\* delete_char was called at the end of a non-empty line of an unmodified
\* document, and the document is still unmodified.
C20_Witness ==
    /\ call = "delete_char"
    /\ ValidLine(pre.buf.lines, query.line)
    /\ query.col = Len(pre.buf.lines[query.line + 1])
    /\ query.col > 0
    /\ ~raised
    /\ ~modified

----------------------------------------------------------------------------
(* SyntaxHighlighter.  highlight_line is a function of the line, of        *)
(* whether a syntax type resolves, of the cursor column and of             *)
(* max_line_length.  A rule table enters by the matches re.finditer finds  *)
(* with it: records [start, end, color, priority], in the order of the     *)
(* table.  Segments are pairs <<text, color>>.                             *)

COLOR_NORMAL  == 1
COLOR_KEYWORD == 2
COLOR_STRING  == 3
COLOR_COMMENT == 4
COLOR_ERROR   == 5
COLOR_OPERATOR == 7
COLOR_BRACKET == 7

Whitespace == {" "}

\* str.rstrip()
RECURSIVE rstrip(_)
rstrip(line) ==
    IF line # <<>> /\ line[Len(line)] \in Whitespace
    THEN rstrip(SubSeq(line, 1, Len(line) - 1))
    ELSE line

\* _apply_basic_highlighting: the line, its trailing whitespace apart.
apply_basic_highlighting(line) ==
    LET stripped == rstrip(line)
    IN  IF Len(stripped) < Len(line)
        THEN << <<stripped, COLOR_NORMAL>>,
                <<SliceFrom(line, Len(stripped)), COLOR_ERROR>> >>
        ELSE << <<line, COLOR_NORMAL>> >>

\* A sort key that puts the lower priority first.
KeyLessLowFirst(a, b) ==
    \/ a.start < b.start
    \/ a.start = b.start /\ a.priority < b.priority

\* The sort key (start, -priority).
KeyLess(a, b) ==
    \/ a.start < b.start
    \/ a.start = b.start /\ a.priority > b.priority

\* list.sort, which is stable.
RECURSIVE sort_matches(_)
sort_matches(ms) ==
    IF ms = <<>> THEN <<>>
    ELSE LET sorted == sort_matches(SubSeq(ms, 1, Len(ms) - 1))
             x      == ms[Len(ms)]
             n      == Cardinality({i \in 1..Len(sorted) : ~KeyLess(x, sorted[i])})
         IN  SubSeq(sorted, 1, n) \o <<x>> \o SubSeq(sorted, n + 1, Len(sorted))

\* _apply_patterns, lines 310-328: the sweep over the sorted matches from
\* position pos on.
RECURSIVE sweep_without_rest(_, _, _)
sweep_without_rest(line, sorted, pos) ==
    IF sorted = <<>> THEN <<>>
    ELSE LET m == Head(sorted)
         IN  IF m.start < pos THEN sweep_without_rest(line, Tail(sorted), pos)
             ELSE << <<Slice(line, m.start, m.end), m.color>> >>
                      \o sweep_without_rest(line, Tail(sorted), m.end)
RECURSIVE sweep(_, _, _)
sweep(line, sorted, pos) ==
    IF sorted = <<>>
    THEN IF pos < Len(line) THEN << <<SliceFrom(line, pos), COLOR_NORMAL>> >>
         ELSE <<>>
    ELSE LET m == Head(sorted)
         IN  IF m.start < pos THEN sweep(line, Tail(sorted), pos)
             ELSE (IF m.start > pos
                   THEN << <<Slice(line, pos, m.start), COLOR_NORMAL>> >>
                   ELSE <<>>)
                      \o << <<Slice(line, m.start, m.end), m.color>> >>
                      \o sweep(line, Tail(sorted), m.end)

\* _apply_patterns
apply_patterns(line, matches) ==
    IF line = <<>> THEN << <<line, COLOR_NORMAL>> >>
    ELSE LET segments == sweep(line, sort_matches(matches), 0)
         IN  IF segments # <<>> THEN segments ELSE << <<line, COLOR_NORMAL>> >>

\* _apply_advanced_features, lines 151-162: the text after max_line_length
\* is marked as an error.
\* The loop of lines 151-162 without the split: a segment that crosses
\* max_line_length is marked whole.
RECURSIVE mark_long_line_unsplit(_, _, _)
mark_long_line_unsplit(segments, current_pos, max_line_length) ==
    IF segments = <<>> THEN <<>>
    ELSE LET text  == Head(segments)[1]
             color == Head(segments)[2]
         IN  << <<text, IF current_pos + Len(text) <= max_line_length
                        THEN color ELSE COLOR_ERROR>> >>
                 \o mark_long_line_unsplit(Tail(segments),
                        current_pos + Len(text), max_line_length)

RECURSIVE mark_long_line(_, _, _)
mark_long_line(segments, current_pos, max_line_length) ==
    IF segments = <<>> THEN <<>>
    ELSE LET text        == Head(segments)[1]
             color       == Head(segments)[2]
             split_point == max_line_length - current_pos
             marked ==
                 IF current_pos + Len(text) <= max_line_length
                 THEN << <<text, color>> >>
                 ELSE IF split_point > 0
                 THEN << <<Slice(text, 0, split_point), color>>,
                         <<SliceFrom(text, split_point), COLOR_ERROR>> >>
                 ELSE << <<text, COLOR_ERROR>> >>
         IN  marked \o mark_long_line(Tail(segments), current_pos + Len(text),
                                      max_line_length)

\* _highlight_character_at_position: the loop over the segments; a
\* segment after the position leaves current_pos as it is.
RECURSIVE highlight_character_from(_, _, _, _)
highlight_character_from(segments, current_pos, pos, color) ==
    IF segments = <<>> THEN <<>>
    ELSE LET text          == Head(segments)[1]
             segment_color == Head(segments)[2]
             local_pos     == pos - current_pos
         IN  IF current_pos + Len(text) <= pos
             THEN << <<text, segment_color>> >>
                      \o highlight_character_from(Tail(segments),
                             current_pos + Len(text), pos, color)
             ELSE IF current_pos > pos
             THEN << <<text, segment_color>> >>
                      \o highlight_character_from(Tail(segments), current_pos,
                                                  pos, color)
             ELSE (IF local_pos = 0
                   THEN << <<Slice(text, 0, 1), color>> >>
                            \o (IF Len(text) > 1
                                THEN << <<SliceFrom(text, 1), segment_color>> >>
                                ELSE <<>>)
                   ELSE IF local_pos = Len(text) - 1
                   THEN (IF Len(text) > 1
                         THEN << <<Slice(text, 0, Len(text) - 1), segment_color>> >>
                         ELSE <<>>)
                            \o << <<SliceFrom(text, Len(text) - 1), color>> >>
                   ELSE << <<Slice(text, 0, local_pos), segment_color>>,
                           <<Slice(text, local_pos, local_pos + 1), color>>,
                           <<SliceFrom(text, local_pos + 1), segment_color>> >>)
                      \o highlight_character_from(Tail(segments),
                             current_pos + Len(text), pos, color)

highlight_character_at_position(segments, pos, color) ==
    highlight_character_from(segments, 0, pos, color)

\* bracket_pairs and reverse_pairs
OpenBrackets  == {"(", "[", "{", "<"}
CloseBrackets == {")", "]", "}", ">"}
bracket_pairs(c) ==
    CASE c = "(" -> ")" [] c = "[" -> "]" [] c = "{" -> "}" [] c = "<" -> ">"
reverse_pairs(c) ==
    CASE c = ")" -> "(" [] c = "]" -> "[" [] c = "}" -> "{" [] c = ">" -> "<"

\* _find_matching_bracket_forward: the loop from index i on.
RECURSIVE find_forward_from(_, _, _, _, _)
find_forward_from(line, i, open_char, close_char, count) ==
    IF i >= Len(line) THEN -1
    ELSE IF line[i + 1] = open_char
    THEN find_forward_from(line, i + 1, open_char, close_char, count + 1)
    ELSE IF line[i + 1] = close_char
    THEN IF count - 1 = 0 THEN i
         ELSE find_forward_from(line, i + 1, open_char, close_char, count - 1)
    ELSE find_forward_from(line, i + 1, open_char, close_char, count)

\* The forward scan stopping at the first closing bracket, nested pairs
\* not counted.
find_matching_bracket_forward_first_close(line, start, open_char, close_char) ==
    LET js == {j \in (start + 1)..(Len(line) - 1) : line[j + 1] = close_char}
    IN  IF js = {} THEN -1 ELSE SetMin(js)

find_matching_bracket_forward(line, start, open_char, close_char) ==
    find_forward_from(line, start + 1, open_char, close_char, 1)

\* _find_matching_bracket_backward: the loop from index i down.
RECURSIVE find_backward_from(_, _, _, _, _)
find_backward_from(line, i, open_char, close_char, count) ==
    IF i < 0 THEN -1
    ELSE IF line[i + 1] = close_char
    THEN find_backward_from(line, i - 1, open_char, close_char, count + 1)
    ELSE IF line[i + 1] = open_char
    THEN IF count - 1 = 0 THEN i
         ELSE find_backward_from(line, i - 1, open_char, close_char, count - 1)
    ELSE find_backward_from(line, i - 1, open_char, close_char, count)

\* The backward scan begun on the cursor itself.
find_matching_bracket_backward_from_cursor(line, start, open_char, close_char) ==
    find_backward_from(line, start, open_char, close_char, 1)

find_matching_bracket_backward(line, start, open_char, close_char) ==
    find_backward_from(line, start - 1, open_char, close_char, 1)

\* _highlight_matching_brackets recoloring the bracket at the cursor only.
highlight_matching_brackets_cursor_only(segments, line, cursor_col) ==
    IF cursor_col >= Len(line) THEN segments
    ELSE IF line[cursor_col + 1] \in OpenBrackets \cup CloseBrackets
    THEN highlight_character_at_position(segments, cursor_col, COLOR_BRACKET)
    ELSE segments

\* _highlight_matching_brackets, called with cursor_col >= 0.
highlight_matching_brackets(segments, line, cursor_col) ==
    IF cursor_col >= Len(line) THEN segments
    ELSE LET char_at_cursor == line[cursor_col + 1]
             match_pos ==
                 IF char_at_cursor \in OpenBrackets
                 THEN find_matching_bracket_forward(line, cursor_col,
                          char_at_cursor, bracket_pairs(char_at_cursor))
                 ELSE IF char_at_cursor \in CloseBrackets
                 THEN find_matching_bracket_backward(line, cursor_col,
                          reverse_pairs(char_at_cursor), char_at_cursor)
                 ELSE -1
         IN  IF match_pos >= 0
             THEN highlight_character_at_position(
                      highlight_character_at_position(segments, cursor_col,
                                                      COLOR_BRACKET),
                      match_pos, COLOR_BRACKET)
             ELSE segments

\* _apply_advanced_features
apply_advanced_features(segments, original_line, cursor_col, max_line_length) ==
    LET marked == IF Len(original_line) > max_line_length
                  THEN mark_long_line(segments, 0, max_line_length)
                  ELSE segments
    IN  IF cursor_col >= 0
        THEN highlight_matching_brackets(marked, original_line, cursor_col)
        ELSE marked

\* highlight_line: syntax is whether a syntax type resolves, matches what
\* its rule table finds in the line.
highlight_line(line, syntax, matches, cursor_col, max_line_length) ==
    IF ~syntax THEN apply_basic_highlighting(line)
    ELSE apply_advanced_features(apply_patterns(line, matches), line,
                                 cursor_col, max_line_length)

\* re.finditer of a rule that matches each single character of a class.
RECURSIVE finditer_chars(_, _, _, _, _)
finditer_chars(line, class, color, priority, i) ==
    IF i >= Len(line) THEN <<>>
    ELSE (IF line[i + 1] \in class
          THEN <<[start |-> i, end |-> i + 1, color |-> color,
                  priority |-> priority]>>
          ELSE <<>>)
             \o finditer_chars(line, class, color, priority, i + 1)

\* re.finditer of the comment rule #.*$ : from the first # to the end.
finditer_comment(line) ==
    LET hits == {i \in 0..(Len(line) - 1) : line[i + 1] = "#"}
    IN  IF hits = {} THEN <<>>
        ELSE <<[start |-> SetMin(hits), end |-> Len(line),
                color |-> COLOR_COMMENT, priority |-> 10]>>

\* The matches of the python table on a line of the characters a, space,
\* parentheses, = and #: the comment rule (priority 10), the operator rule
\* (5) and the bracket rule (4); the other rules match nothing there.
python_matches(line) ==
    finditer_comment(line)
        \o finditer_chars(line, {"="}, COLOR_OPERATOR, 5, 0)
        \o finditer_chars(line, {"(", ")"}, COLOR_BRACKET, 4, 0)

----------------------------------------------------------------------------
(* SpecHighlight: one call of highlight_line.  query holds the inputs,     *)
(* found the segments returned.                                            *)

\* The longest line, and the longest list of matches of an arbitrary rule
\* table.
MaxLineLen == 3
MaxMatches == 2

HighlightChars == {"a", " ", "(", ")", "#", "="}

\* max_line_length: the 120 of the code, and a length the lines of the
\* model exceed.
LineLengths == {2, 120}

HighlightLines == UNION {[1..n -> HighlightChars] : n \in 0..MaxLineLen}

\* What any rule table can find in a line: spans of it, with a priority
\* and a color (one for each priority).
AnyMatch(line) ==
    {[start |-> a, end |-> b, priority |-> p,
      color |-> IF p = 0 THEN COLOR_KEYWORD ELSE COLOR_STRING] :
        a \in 0..Len(line), b \in 0..Len(line), p \in {0, 1}}
    \ {m \in [start : 0..Len(line), end : 0..Len(line), priority : {0, 1},
              color : {COLOR_KEYWORD, COLOR_STRING}] : m.start > m.end}

AnyMatches(line) == UNION {[1..n -> AnyMatch(line)] : n \in 0..MaxMatches}

\* The calls on a line: with the python table, with an arbitrary table,
\* and with no syntax type.
TableCalls(l) ==
    {[line |-> l, syntax |-> TRUE, matches |-> python_matches(l),
      cursor_col |-> c, max_line_length |-> x] :
        c \in (0 - 1)..(MaxLineLen + 1), x \in LineLengths}

ArbitraryCalls(l) ==
    {[line |-> l, syntax |-> TRUE, matches |-> ms, cursor_col |-> c,
      max_line_length |-> x] :
        ms \in AnyMatches(l), c \in {0 - 1, 1}, x \in LineLengths}

PlainCalls(l) ==
    {[line |-> l, syntax |-> FALSE, matches |-> <<>>, cursor_col |-> c,
      max_line_length |-> x] :
        c \in (0 - 1)..(MaxLineLen + 1), x \in LineLengths}

\* The lines highlighted with an arbitrary table.
ArbitraryLines == {<<>>, <<"a">>, <<"(", "a", ")">>}

\* The line "f(x)", highlighted with the python table and with tables
\* that find nothing or one span in it, the cursor on every column and
\* past the end.
FX == <<"f", "(", "x", ")">>

ScenarioCalls ==
    {[line |-> FX, syntax |-> TRUE, matches |-> ms, cursor_col |-> c,
      max_line_length |-> x] :
        ms \in {<<>>, python_matches(FX)} \cup {<<m>> : m \in AnyMatch(FX)},
        c \in (0 - 1)..(Len(FX) + 1), x \in LineLengths}

\* Lines of brackets of two pair types, one character longer than the
\* other lines so that a pair can nest in a pair; highlighted with a table
\* that finds nothing and with one that colors the whole line, the cursor
\* on every column.
BracketLines(n) == UNION {[1..k -> {"(", ")", "[", "]"}] : k \in 0..n}

BracketCalls(l) ==
    {[line |-> l, syntax |-> TRUE, matches |-> ms, cursor_col |-> c,
      max_line_length |-> x] :
        ms \in {<<>>, <<[start |-> 0, end |-> Len(l), priority |-> 0,
                         color |-> COLOR_KEYWORD]>>},
        c \in (0 - 1)..Len(l), x \in LineLengths}

\* highlight_line(line, filename, line_number, cursor_col)
HighlightLine ==
    /\ found.op = "none"
    /\ found' = [op |-> "highlight",
                  value |-> highlight_line(query.line, query.syntax,
                                           query.matches, query.cursor_col,
                                           query.max_line_length)]
    /\ UNCHANGED <<bufVars, curVars, viewVars, termVars, edVars, last_op, fs,
                   raised, pc, call, pre, failed_at, round_trip, query>>

InitHighlight ==
    /\ InitBuffer
    /\ InitEditor
    /\ height = 4
    /\ width = 7
    /\ fs = SessionFs
    /\ NoCall
    /\ \/ \E l \in HighlightLines : query \in TableCalls(l) \cup PlainCalls(l)
       \/ \E l \in ArbitraryLines : query \in ArbitraryCalls(l)
       \/ query \in ScenarioCalls
       \/ \E l \in BracketLines(MaxLineLen + 1) : query \in BracketCalls(l)
    /\ found = NoResult

NextHighlight == HighlightLine

SpecHighlight == InitHighlight /\ [][NextHighlight]_vars

\* The texts of the segments, one after the other.
RECURSIVE Concatenated(_)
Concatenated(segments) ==
    IF segments = <<>> THEN <<>>
    ELSE Head(segments)[1] \o Concatenated(Tail(segments))

\* C17: for every line, the empty line and lines no rule matches included,
\* every rule table, the case of no syntax type and every cursor column,
\* the texts of the segments highlight_line returns, concatenated in order,
\* are the line.
C17_SegmentsSpellTheLine ==
    found.op = "highlight" => Concatenated(found.value) = query.line

\* The line "(a)" was highlighted with the python table, the cursor on the
\* opening bracket and the line longer than max_line_length.
C17_Witness ==
    /\ found.op = "highlight"
    /\ query.syntax
    /\ query.line = <<"(", "a", ")">>
    /\ query.matches = python_matches(query.line)
    /\ query.cursor_col = 0
    /\ query.max_line_length = 2
    /\ found.value = << <<<<"(">>, COLOR_BRACKET>>, <<<<"a">>, COLOR_NORMAL>>,
                        <<<<")">>, COLOR_BRACKET>> >>

----------------------------------------------------------------------------
(* SpecScan: find_text, find_all_occurrences and replace_all run loop by   *)
(* loop, one step for each pass of a loop over the lines and two for each  *)
(* pass of the case-insensitive while loop of replace_all (the find, then  *)
(* the update of start).  found holds the locals the loops read: line_num, *)
(* start, pos, and the value built so far.  new_line and the count of the  *)
(* while loop are not followed pass by pass: the line and its count are    *)
(* written when the loop ends.  A running call takes its next step (weak   *)
(* fairness): the interpreter does not stop.                               *)

ScanDocs ==
    {<<<<>>>>, <<<<"a">>>>, <<<<"a", "A">>, <<>>>>, <<<<"b">>, <<"a", "a">>>>}

ScanPatterns == {<<>>, <<"a">>, <<"a", "a">>}

ScanQueries(L) ==
    {q \in [pattern : ScanPatterns, start_line : 0..(Len(L) - 1),
            start_col : 0..(MaxChars + 1), cs : BOOLEAN, ww : BOOLEAN,
            wrap : BOOLEAN] :
        q.start_col <= Len(L[q.start_line + 1]) + 1}

ScanFrame ==
    UNCHANGED <<curVars, viewVars, termVars, edVars, last_op, fs, call, pre,
                failed_at, round_trip, query>>

\* find_text: the first _search_range, from the start position to the end.
StartFindText ==
    /\ pc = "idle"
    /\ pc' = "search_range"
    /\ found' = [op |-> "find", line_num |-> query.start_line,
                  end_line |-> Len(lines), wrapped |-> FALSE, value |-> NoMatch]
    /\ UNCHANGED <<bufVars, raised>>
    /\ ScanFrame

\* _search_range: one pass of the loop over the lines, or its end; at the
\* end of the first range find_text starts the wrapped one (lines 262-267).
SearchRangeStep ==
    /\ pc = "search_range"
    /\ LET pattern == IF query.cs THEN query.pattern ELSE lower(query.pattern)
           n       == found.line_num
           from    == IF found.wrapped THEN <<0, 0>>
                      ELSE <<query.start_line, query.start_col>>
       IN  IF n >= Min(found.end_line, Len(lines))
           THEN IF /\ ~found.wrapped
                   /\ query.wrap
                   /\ (query.start_line > 0 \/ query.start_col > 0)
                THEN /\ found' = [found EXCEPT !.line_num = 0,
                                               !.end_line = query.start_line + 1,
                                               !.wrapped = TRUE]
                     /\ pc' = pc
                ELSE /\ pc' = "done"
                     /\ found' = found
           ELSE LET line        == lines[n + 1]
                    search_line == IF query.cs THEN line ELSE lower(line)
                    start_pos   == start_pos_of(n, from[1], from[2])
                    pos == IF query.ww
                           THEN FirstAtOrAfter(word_finditer(line, pattern, FALSE, 0),
                                               start_pos)
                           ELSE str_find(search_line, pattern, start_pos)
                    res == <<n, pos, pos + Len(pattern)>>
                IN  IF pos # -1
                    THEN /\ pc' = "done"
                         /\ found' =
                                [found EXCEPT !.value =
                                    IF found.wrapped
                                       /\ ~wrap_accepts(res, query.start_line,
                                                        query.start_col)
                                    THEN NoMatch ELSE res]
                    ELSE /\ pc' = pc
                         /\ found' = [found EXCEPT !.line_num = n + 1]
    /\ UNCHANGED <<bufVars, raised>>
    /\ ScanFrame

\* find_all_occurrences
StartFindAll ==
    /\ pc = "idle"
    /\ pc' = "find_all"
    /\ found' = [op |-> "find_all", line_num |-> 0, start |-> 0, value |-> <<>>]
    /\ UNCHANGED <<bufVars, raised>>
    /\ ScanFrame

\* find_all_occurrences: a whole line in whole-word mode (re.finditer),
\* one pass of the while loop (lines 335-340) otherwise, or the end.
FindAllStep ==
    /\ pc = "find_all"
    /\ LET n == found.line_num
       IN  IF n >= Len(lines)
           THEN pc' = "done" /\ found' = found
           ELSE /\ pc' = pc
                /\ IF query.ww
                   THEN found' =
                            [found EXCEPT
                                !.value = @ \o find_all_of_line(n, lines[n + 1],
                                                  query.pattern, query.cs, TRUE),
                                !.line_num = n + 1]
                   ELSE LET search_line ==
                                IF query.cs THEN lines[n + 1] ELSE lower(lines[n + 1])
                            search_pattern ==
                                IF query.cs THEN query.pattern
                                ELSE lower(query.pattern)
                            pos == str_find(search_line, search_pattern, found.start)
                        IN  IF pos = -1
                            THEN found' = [found EXCEPT !.line_num = n + 1,
                                                        !.start = 0]
                            ELSE found' =
                                     [found EXCEPT
                                         !.value = Append(@, <<n, pos,
                                                      pos + Len(query.pattern)>>),
                                         !.start = pos + 1]
    /\ UNCHANGED <<bufVars, raised>>
    /\ ScanFrame

\* replace_all
StartReplaceAll(new_text) ==
    /\ pc = "idle"
    /\ raised' = replace_all_raises(query.pattern, new_text, query.cs, query.ww)
    /\ pc' = IF raised' THEN "done" ELSE "replace_all"
    /\ found' = [op |-> "replace_all", line_num |-> 0, start |-> 0, pos |-> 0 - 1,
                  new_text |-> new_text, value |-> 0]
    /\ UNCHANGED bufVars
    /\ ScanFrame

\* replace_all: one pass of the loop over the lines.  A whole-word or
\* case-sensitive line is replaced at once (subn, count and replace); a
\* case-insensitive line that holds the pattern enters the while loop.
\* After the last line: lines 405-407.
ReplaceLineStep ==
    /\ pc = "replace_all"
    /\ LET n == found.line_num
       IN  IF n >= Len(lines)
           THEN /\ pc' = "done"
                /\ found' = found
                /\ IF found.value > 0
                   THEN BufEdited(lines)
                   ELSE UNCHANGED bufVars
           ELSE IF query.ww \/ query.cs
           THEN LET r == replace_all_line(lines[n + 1], query.pattern,
                                          found.new_text, query.cs, query.ww)
                IN  /\ pc' = pc
                    /\ lines' = IF r[2] > 0 THEN SetLine(lines, n, r[1]) ELSE lines
                    /\ found' = [found EXCEPT !.value = @ + r[2],
                                              !.line_num = n + 1]
                    /\ UNCHANGED <<filename, encoding, line_ending, modified,
                                   total_chars, total_lines>>
           ELSE /\ IF str_find(lower(lines[n + 1]), lower(query.pattern), 0) # -1
                   THEN pc' = "ci_find" /\ found' = [found EXCEPT !.start = 0]
                   ELSE pc' = pc /\ found' = [found EXCEPT !.line_num = n + 1]
                /\ UNCHANGED bufVars
    /\ UNCHANGED raised
    /\ ScanFrame

\* The while loop, lines 396-399: the find; when it finds nothing the loop
\* ends and the line is written.
CiFind ==
    /\ pc = "ci_find"
    /\ LET n   == found.line_num
           pos == str_find(lower(lines[n + 1]), lower(query.pattern), found.start)
       IN  IF pos = -1
           THEN LET r == ci_replace_from(lines[n + 1], lower(lines[n + 1]),
                                         query.pattern, found.new_text, 0)
                IN  /\ pc' = "replace_all"
                    /\ lines' = SetLine(lines, n, r[1])
                    /\ found' = [found EXCEPT !.value = @ + r[2],
                                              !.line_num = n + 1]
           ELSE /\ pc' = "ci_update"
                /\ found' = [found EXCEPT !.pos = pos]
                /\ UNCHANGED lines
    /\ UNCHANGED <<filename, encoding, line_ending, modified, total_chars,
                   total_lines, raised>>
    /\ ScanFrame

\* The while loop, lines 400-402: start = pos + len(old_text).
CiUpdate ==
    /\ pc = "ci_update"
    /\ pc' = "ci_find"
    /\ found' = [found EXCEPT !.start = found.pos + Len(query.pattern)]
    /\ UNCHANGED <<bufVars, raised>>
    /\ ScanFrame

InitScan ==
    /\ lines \in ScanDocs
    /\ filename = None
    /\ encoding = "utf-8"
    /\ line_ending = <<LF>>
    /\ modified = FALSE
    /\ total_lines = Len(lines)
    /\ total_chars = SumLen(lines) + (Len(lines) - 1)
    /\ raised = FALSE
    /\ InitEditor
    /\ height = 4
    /\ width = 7
    /\ fs = SessionFs
    /\ NoCall
    /\ query \in ScanQueries(lines)
    /\ found = NoResult

NextScan ==
    \/ StartFindText
    \/ SearchRangeStep
    \/ StartFindAll
    \/ FindAllStep
    \/ \E new_text \in {<<>>, <<"x">>, <<Backslash>>} : StartReplaceAll(new_text)
    \/ ReplaceLineStep
    \/ CiFind
    \/ CiUpdate

SpecScan == InitScan /\ [][NextScan]_vars /\ WF_vars(NextScan)

\* C18: find_text, find_all_occurrences and replace_all end, for every
\* pattern, the empty one included, and every case_sensitive and
\* whole_word: a call that has started returns or raises.
C18_CallsTerminate == (pc # "idle") ~> (pc = "done")

----------------------------------------------------------------------------
(* Loading a path that does not exist.                                     *)

\* C21: loading a path that does not exist does not fail: whatever the
\* document was before, the call returns and leaves a document of exactly
\* one empty line, bound to that path, with modified false and statistics
\* of 1 line and 0 characters.
C21_LoadMissingCreates ==
    (call = "load" /\ pre.file.kind = "missing") =>
        /\ ~raised
        /\ lines = <<<<>>>>
        /\ filename = pre.path
        /\ ~modified
        /\ total_lines = 1
        /\ total_chars = 0

----------------------------------------------------------------------------
(* Matching brackets on the line "f(x)".                                   *)

\* The color of the character at index pos of the line the segments spell.
RECURSIVE ColorAt(_, _)
ColorAt(segments, pos) ==
    IF segments = <<>> THEN 0
    ELSE IF pos < Len(Head(segments)[1]) THEN Head(segments)[2]
    ELSE ColorAt(Tail(segments), pos - Len(Head(segments)[1]))

\* Both brackets of "f(x)" have the bracket color.
BothBracketsColored ==
    /\ ColorAt(found.value, 1) = COLOR_BRACKET
    /\ ColorAt(found.value, 3) = COLOR_BRACKET

----------------------------------------------------------------------------
(* The statistics of the document store.                                   *)

\* C23: in every reachable state of the document store total_lines is the
\* number of lines, and total_chars is the sum of the line lengths plus
\* one separator for each line but the last.
C23_StatsMatchLines ==
    /\ total_lines = Len(lines)
    /\ total_chars = SumLen(lines) + (Len(lines) - 1)

----------------------------------------------------------------------------
(* SpecStore: a TextBuffer that is edited, saved and loaded, each call one *)
(* step.                                                                   *)

\* save_file(filename) as one step: the name is bound; without a name the
\* call raises; otherwise the content replaces the target and modified is
\* cleared (ok), or a step fails, the temporary file is removed and the
\* call raises.
BufSave(arg, ok) ==
    LET name == IF arg # None THEN arg ELSE filename
        temp == temp_file_of(name)
    IN  /\ filename' = name
        /\ IF name = None
           THEN raised' = TRUE /\ UNCHANGED <<modified, fs>>
           ELSE IF ok
           THEN /\ fs' = replace_file(
                             [fs EXCEPT ![temp] = RegularFile(save_content)],
                             temp, name)
                /\ modified' = FALSE
                /\ raised' = FALSE
           ELSE /\ fs' = cleanup(fs, temp)
                /\ raised' = TRUE
                /\ UNCHANGED modified
        /\ UNCHANGED <<lines, encoding, line_ending, total_chars, total_lines,
                       curVars, viewVars, termVars, edVars, last_op, callVars>>

\* The paths of the store: a path that does not exist until the document
\* is saved there, its temporary file, a path that cannot be resolved and
\* a directory.
StoreFs ==
    [p \in {"s", "s.tmp", "x", "d"} |->
        CASE p = "s" -> Missing
          [] p = "s.tmp" -> Missing
          [] p = "x" -> Unresolvable
          [] p = "d" -> Directory]

StorePaths == {"s", "x", "d"}

\* The texts replace_all and replace_text are called with.
StoreTexts == {<<>>, <<"a">>, <<"a", "a">>}

\* One editing call, on a line of the document or on the line after the
\* last, with a column of the bounds.
EditCall ==
    \E n \in 0..Len(lines), c \in 0..MaxChars :
        \/ BufInsertChar(n, c, "a")
        \/ BufDeleteChar(n, c)
        \/ BufInsertNewline(n, c)
        \/ BufJoinLines(n)
        \/ \E new \in StoreTexts, cs \in BOOLEAN :
               BufReplaceAll(<<"a">>, new, cs, FALSE)
        \/ \E new \in StoreTexts, e \in {c, c + 1} : BufReplaceText(new, n, c, e)

InitStore ==
    /\ InitBuffer
    /\ InitEditor
    /\ height = 4
    /\ width = 7
    /\ fs = StoreFs
    /\ NoCall
    /\ query = NoQuery
    /\ found = NoResult

NextStore ==
    \/ EditCall
    \/ \E arg \in {None, "s"}, ok \in BOOLEAN : BufSave(arg, ok)
    \/ \E path \in StorePaths : BufLoad(path)

SpecStore == InitStore /\ [][NextStore]_vars

\* save_file has returned, or load_file has returned.
SavedOrLoaded ==
    \/ \E arg \in {None, "s"} : BufSave(arg, TRUE) /\ ~raised'
    \/ \E path \in StorePaths : BufLoad(path) /\ ~raised'

\* C24: every editing call that changes the lines (insert_char,
\* delete_char, insert_newline, join_lines, replace_all with a count above
\* 0, replace_text) leaves modified true, and modified, once true, stays
\* true in every step but a successful save or a successful load.
C24_ModifiedUntilSavedOrLoaded ==
    [][/\ (EditCall /\ lines' # lines) => modified'
       /\ (modified /\ ~modified') => SavedOrLoaded]_vars

\* The empty document was saved, then a character was typed, then a save
\* failed: the document is still modified.
C24_Witness ==
    /\ fs["s"] = RegularFile(<<>>)
    /\ filename = "s"
    /\ lines = <<<<"a">>>>
    /\ raised
    /\ modified

----------------------------------------------------------------------------
(* insert_newline on a valid line.                                         *)

\* C25: insert_newline(line, col) on a valid line replaces that line by
\* its left part line[:col] and inserts the right part line[col:] right
\* after it: the call returns, the line count grows by exactly 1, left +
\* right is the original line, and every other line keeps its content and
\* its place among the others.
C25_NewlineSplitsTheLine ==
    (call = "insert_newline" /\ ValidLine(pre.buf.lines, query.line)) =>
        LET before == pre.buf.lines
            n      == query.line + 1
            line   == before[n]
        IN  /\ ~raised
            /\ Len(lines) = Len(before) + 1
            /\ lines[n] \o lines[n + 1] = line
            /\ (0 <= query.col /\ query.col <= Len(line))
                   => Len(lines[n]) = query.col
            /\ query.col > Len(line) => lines[n] = line
            /\ \A i \in 1..(n - 1) : lines[i] = before[i]
            /\ \A i \in (n + 1)..Len(before) : lines[i + 1] = before[i]

\* The first of two lines, "ab", was split between its two characters.
C25_Witness ==
    /\ call = "insert_newline"
    /\ query.line = 0
    /\ query.col = 1
    /\ pre.buf.lines = <<<<"a", "b">>, <<>>>>
    /\ lines = <<<<"a">>, <<"b">>, <<>>>>
    /\ modified

----------------------------------------------------------------------------
(* SpecMove: the movement keys on a document that is not edited, in a      *)
(* terminal that may be resized.  last_op is the key handled last.  The    *)
(* keys are followed as long as the cursor is on a line of the document.   *)

\* The documents: lines of up to MaxChars characters.
MoveDocs ==
    UNION {[1..k -> {Repeat("a", n) : n \in 0..MaxChars}] : k \in 1..MaxLines}

\* What the terminal may report: 0 to 3 text rows, and 1 or 2 columns
\* beside the line numbers.
MoveHeights == {2, 3, 4, 5}
MoveWidths  == {6, 7}

InitMove ==
    /\ lines \in MoveDocs
    /\ filename = None
    /\ encoding = "utf-8"
    /\ line_ending = <<LF>>
    /\ modified = FALSE
    /\ total_lines = Len(lines)
    /\ total_chars = SumLen(lines) + (Len(lines) - 1)
    /\ raised = FALSE
    /\ cursor_x = 0
    /\ cursor_y = 0
    /\ scroll_x = 0
    /\ scroll_y = 0
    /\ height \in MoveHeights
    /\ width \in MoveWidths
    /\ show_line_numbers = TRUE
    /\ ed_modified = FALSE
    /\ current_file = None
    /\ running = TRUE
    /\ last_search = NoSearch
    /\ last_op = "none"
    /\ fs = SessionFs
    /\ NoCall
    /\ query = NoQuery
    /\ found = NoResult

\* The cursor is on a line of the document.
OnDocument == ValidLine(lines, cursor_y)

NextMove ==
    \/ OnDocument /\ MoveCursorUp /\ Handled("up")
    \/ OnDocument /\ MoveCursorDown /\ Handled("down")
    \/ OnDocument /\ MoveCursorLeft /\ Handled("left")
    \/ OnDocument /\ MoveCursorRight /\ Handled("right")
    \/ OnDocument /\ MoveCursorHome /\ Handled("home")
    \/ OnDocument /\ MoveCursorEnd /\ Handled("end")
    \/ OnDocument /\ MovePageUp /\ Handled("page_up")
    \/ OnDocument /\ MovePageDown /\ Handled("page_down")
    \/ \E h \in MoveHeights, w \in MoveWidths :
           OnDocument /\ UpdateDimensions(h, w) /\ Handled("resize")

SpecMove == InitMove /\ [][NextMove]_vars

\* The line the cursor is on after a vertical move of delta lines,
\* clamped to the document.
ClampedLine(delta) == Max(0, Min(Len(lines) - 1, cursor_y + delta))

\* C26: Up and Down change the cursor line by 1, PageUp and PageDown by
\* the page size (status_line - 1), clamped to [0, last line], and the
\* column becomes min(previous column, length of the new line).
C26_VerticalMoves ==
    [][(last_op' \in {"up", "down", "page_up", "page_down"}) =>
          /\ cursor_y' = CASE last_op' = "up" -> ClampedLine(0 - 1)
                           [] last_op' = "down" -> ClampedLine(1)
                           [] last_op' = "page_up" ->
                                  ClampedLine(0 - (status_line - 1))
                           [] last_op' = "page_down" ->
                                  ClampedLine(status_line - 1)
          /\ cursor_x' = Min(cursor_x, Len(lines[cursor_y' + 1]))]_vars

----------------------------------------------------------------------------
(* Left and Right at the ends of the lines.                                *)

\* Left was pressed at column 0, Right at the end of the line.
LeftAtLineStart == last_op' = "left" /\ cursor_x = 0
RightAtLineEnd  == last_op' = "right" /\ cursor_x = Len(lines[cursor_y + 1])

\* Left at column 0 of a line > 0 moves to the end of the previous line,
\* and Right at the end of a line that is not the last moves to column 0
\* of the next line.
WrapsAround ==
    /\ (LeftAtLineStart /\ cursor_y > 0) =>
           /\ cursor_y' = cursor_y - 1
           /\ cursor_x' = Len(lines[cursor_y' + 1])
    /\ (RightAtLineEnd /\ cursor_y < Len(lines) - 1) =>
           /\ cursor_y' = cursor_y + 1
           /\ cursor_x' = 0

\* Left at (0,0), or Right at the end of the last line.
AtDocumentEdge ==
    \/ LeftAtLineStart /\ cursor_y = 0
    \/ RightAtLineEnd /\ cursor_y = Len(lines) - 1

----------------------------------------------------------------------------
(* The viewport after a movement key.                                      *)

MoveKeys ==
    {"up", "down", "left", "right", "home", "end", "page_up", "page_down"}

\* The cursor after the step against the window before the step.
AboveWindow   == cursor_y' < scroll_y
BelowWindow   == cursor_y' >= scroll_y + status_line
LeftOfWindow  == cursor_x' < scroll_x
RightOfWindow == cursor_x' >= scroll_x + visible_width

\* The adjustment of lines 449-469 in the words of the claim.
MinimalAdjustment ==
    /\ (~AboveWindow /\ ~BelowWindow /\ ~LeftOfWindow /\ ~RightOfWindow) =>
           UNCHANGED viewVars
    /\ AboveWindow   => scroll_y' = cursor_y'
    /\ BelowWindow   => scroll_y' = cursor_y' - status_line + 1
    /\ LeftOfWindow  => scroll_x' = cursor_x'
    /\ RightOfWindow => scroll_x' = cursor_x' - visible_width + 1
    /\ scroll_x' >= 0
    /\ scroll_y' >= 0

\* C28: after a move, the viewport is unchanged if the cursor is inside
\* the visible rectangle; otherwise scroll_y is the cursor line when the
\* cursor is above the window and cursor line - visible rows + 1 when it
\* is below, likewise scroll_x with the columns; the offsets are never
\* negative.
C28_ViewportFollowsMinimally ==
    [][last_op' \in MoveKeys => MinimalAdjustment]_vars

----------------------------------------------------------------------------
(* replace_text.                                                           *)

\* x brought into lo..hi (lo <= hi).
Clamp(x, lo, hi) == IF x < lo THEN lo ELSE IF x > hi THEN hi ELSE x

\* C29: replace_text(old, new, line, start_col, end_col) on a valid line
\* replaces exactly the span [s, e) of the line with new, where
\* s = clamp(start_col, 0, len) and e = clamp(end_col, s, len): the s
\* characters before the span and the len - e characters after it are
\* kept, new stands between them, and the other lines are unchanged; on
\* a line number out of range the call changes nothing.
C29_ReplaceTextClampsTheSpan ==
    call = "replace_text" =>
        LET before == pre.buf.lines
            n      == query.line + 1
            new    == query.new_text
        IN  /\ ~raised
            /\ IF ValidLine(before, query.line)
               THEN LET line == before[n]
                        len  == Len(line)
                        s    == Clamp(query.col, 0, len)
                        e    == Clamp(query.end_col, s, len)
                    IN  /\ Len(lines) = Len(before)
                        /\ Len(lines[n]) = s + Len(new) + (len - e)
                        /\ \A i \in 1..s : lines[n][i] = line[i]
                        /\ \A i \in 1..Len(new) : lines[n][s + i] = new[i]
                        /\ \A i \in 1..(len - e) :
                               lines[n][s + Len(new) + i] = line[e + i]
                        /\ \A k \in 1..Len(before) :
                               k # n => lines[k] = before[k]
               ELSE BufferState = pre.buf

\* replace_text(_, "b", 0, 1, 0) on the document ["aa"]: the end column
\* is raised to the start column and "b" is put between the two
\* characters.
C29_Witness ==
    /\ call = "replace_text"
    /\ pre.buf.lines = <<<<"a", "a">>>>
    /\ query.line = 0
    /\ query.col = 1
    /\ query.end_col = 0
    /\ lines = <<<<"a", "b", "a">>>>

----------------------------------------------------------------------------
(* _apply_patterns: which matches are colored.                             *)

\* A call whose result is that of _apply_patterns: a syntax type is
\* resolved, the line is not longer than max_line_length and no cursor
\* column is given.
PatternCall ==
    /\ found.op = "highlight"
    /\ query.syntax
    /\ query.cursor_col < 0
    /\ Len(query.line) <= query.max_line_length

\* The matches of the rules: line 288 returns before any rule is tried on
\* an empty line.
RuleMatches == IF query.line = <<>> THEN <<>> ELSE query.matches

\* The span of the line that segment k covers, and its color.
SpanOf(segments, k) ==
    LET start == Len(Concatenated(SubSeq(segments, 1, k - 1)))
    IN  [start |-> start, end |-> start + Len(segments[k][1]),
         color |-> segments[k][2]]

\* Span sp is match m, colored.
IsMatch(sp, m) ==
    /\ m.start = sp.start
    /\ m.end = sp.end
    /\ m.color = sp.color

\* C30: the matches of the rules are sorted by (start ascending, priority
\* descending) and swept left to right, and a match is accepted iff its
\* start is not before the end of the previously accepted match.  On the
\* segments returned: every colored span is a match; the colored spans
\* are in increasing order and do not overlap; a match that is not
\* colored starts inside a colored span that starts at or before it;
\* where a colored span starts, a match of the highest priority among the
\* matches with that start is colored; and what lies between the colored
\* spans is emitted in the default color, each gap as one segment.
C30_OverlapResolution ==
    PatternCall =>
        LET segs    == found.value
            ms      == RuleMatches
            span(k) == SpanOf(segs, k)
            colored == {k \in 1..Len(segs) : segs[k][2] # COLOR_NORMAL}
            plain   == (1..Len(segs)) \ colored
        IN  /\ Concatenated(segs) = query.line
            /\ \A k \in colored : \E i \in 1..Len(ms) : IsMatch(span(k), ms[i])
            /\ \A j, k \in colored : j < k => span(j).end <= span(k).start
            /\ \A i \in 1..Len(ms) :
                   \/ \E k \in colored : IsMatch(span(k), ms[i])
                   \/ \E k \in colored : /\ span(k).start <= ms[i].start
                                          /\ ms[i].start < span(k).end
            /\ \A k \in colored :
                   \E j \in colored, i \in 1..Len(ms) :
                      /\ span(j).start = span(k).start
                      /\ IsMatch(span(j), ms[i])
                      /\ \A h \in 1..Len(ms) :
                             ms[h].start = span(k).start
                                 => ms[h].priority <= ms[i].priority
            /\ \A k \in plain :
                   /\ query.line # <<>> => segs[k][1] # <<>>
                   /\ (k + 1) \notin plain

\* On "(a)" a rule of priority 0 found "(a" and a later rule of priority
\* 1 found "(a)", both from column 0: the whole line has the color of the
\* second.
C30_Witness ==
    /\ PatternCall
    /\ query.line = <<"(", "a", ")">>
    /\ query.matches =
           <<[start |-> 0, end |-> 2, priority |-> 0, color |-> COLOR_KEYWORD],
             [start |-> 0, end |-> 3, priority |-> 1, color |-> COLOR_STRING]>>
    /\ found.value = << <<query.line, COLOR_STRING>> >>

----------------------------------------------------------------------------
(* The passes after the rule sweep.                                        *)

\* The spans after the rule sweep: those of _apply_patterns, or the whole
\* line as one default-colored span when no syntax type resolves.
SweptSpans ==
    IF query.syntax THEN apply_patterns(query.line, query.matches)
    ELSE << <<query.line, COLOR_NORMAL>> >>

\* The index at which the last span after the sweep starts.
LastSpanStart ==
    Len(Concatenated(SubSeq(SweptSpans, 1, Len(SweptSpans) - 1)))

\* The line ends in whitespace and the last span after the sweep is
\* default-colored.
TrailingWhitespaceInDefaultSpan ==
    /\ found.op = "highlight"
    /\ Len(rstrip(query.line)) < Len(query.line)
    /\ SweptSpans[Len(SweptSpans)][2] = COLOR_NORMAL

\* C31: for every line that ends in whitespace and whose last span after
\* the rule sweep is default-colored, the trailing whitespace (what of it
\* lies in that span) has the error color in the segments returned, with
\* a syntax type resolved and with none.
C31_TrailingWhitespaceMarked ==
    TrailingWhitespaceInDefaultSpan =>
        \A p \in Max(Len(rstrip(query.line)), LastSpanStart)
                    ..(Len(query.line) - 1) :
            ColorAt(found.value, p) = COLOR_ERROR

\* A line longer than max_line_length was highlighted with a syntax type
\* resolved and no cursor column, so that the overlong-line pass is the
\* last pass.
OverlongCall ==
    /\ found.op = "highlight"
    /\ query.syntax
    /\ query.cursor_col < 0
    /\ Len(query.line) > query.max_line_length

\* C32: when a line with a resolved language is longer than the
\* threshold, after the overlong-line pass every character at an index >=
\* threshold has the error color and every character at an index <
\* threshold has the color the rule sweep gave it, also when the
\* threshold falls inside a span or several spans lie beyond it; the text
\* is unchanged.
C32_OverlongTailMarked ==
    OverlongCall =>
        /\ Concatenated(found.value) = query.line
        /\ \A p \in 0..(Len(query.line) - 1) :
               ColorAt(found.value, p) =
                   IF p >= query.max_line_length THEN COLOR_ERROR
                   ELSE ColorAt(SweptSpans, p)

\* On "f(x)" with threshold 2 a rule colored "(x": the span is split at
\* the threshold, and "x" and the default span ")" beyond it are marked.
C32_Witness ==
    /\ OverlongCall
    /\ query.line = FX
    /\ query.max_line_length = 2
    /\ query.matches = <<[start |-> 1, end |-> 3, priority |-> 0,
                          color |-> COLOR_KEYWORD]>>
    /\ found.value = << <<<<"f">>, COLOR_NORMAL>>, <<<<"(">>, COLOR_KEYWORD>>,
                        <<<<"x">>, COLOR_ERROR>>, <<<<")">>, COLOR_ERROR>> >>

----------------------------------------------------------------------------
(* Matching brackets.                                                      *)

\* How many of the indices a..b of the line hold ch.
CountOf(line, ch, a, b) == Cardinality({k \in a..b : line[k + 1] = ch})

\* The bracket that balances the one at index i: for an opening bracket
\* the first closing bracket of its type after i up to which the closing
\* brackets outnumber the opening ones, for a closing bracket the last
\* opening bracket before i likewise; -1 if there is none.
Partner(line, i) ==
    LET ch == line[i + 1]
    IN  IF ch \in OpenBrackets
        THEN LET close == bracket_pairs(ch)
                 J == {j \in (i + 1)..(Len(line) - 1) :
                          /\ line[j + 1] = close
                          /\ CountOf(line, close, i + 1, j)
                                 = CountOf(line, ch, i + 1, j) + 1}
             IN  IF J = {} THEN 0 - 1 ELSE SetMin(J)
        ELSE LET open == reverse_pairs(ch)
                 J == {j \in 0..(i - 1) :
                          /\ line[j + 1] = open
                          /\ CountOf(line, open, j, i - 1)
                                 = CountOf(line, ch, j, i - 1) + 1}
             IN  IF J = {} THEN 0 - 1 ELSE CHOOSE j \in J : \A k \in J : k <= j

\* The spans before the bracket pass: those of the rule sweep, after the
\* overlong-line pass.
SpansBeforeBrackets ==
    apply_advanced_features(SweptSpans, query.line, 0 - 1,
                            query.max_line_length)

\* The bracket pass ran with the cursor on a bracket.
CursorOnBracket ==
    /\ found.op = "highlight"
    /\ query.syntax
    /\ 0 <= query.cursor_col
    /\ query.cursor_col < Len(query.line)
    /\ query.line[query.cursor_col + 1] \in OpenBrackets \cup CloseBrackets

----------------------------------------------------------------------------
(* No syntax type.                                                         *)

\* The cursor is on a bracket of the line that has a partner.
CursorOnMatchedBracket ==
    /\ 0 <= query.cursor_col
    /\ query.cursor_col < Len(query.line)
    /\ query.line[query.cursor_col + 1] \in OpenBrackets \cup CloseBrackets
    /\ Partner(query.line, query.cursor_col) >= 0

\* The two indices the bracket pass recolors, if any.
MatchedBrackets ==
    IF CursorOnMatchedBracket
    THEN {query.cursor_col, Partner(query.line, query.cursor_col)}
    ELSE {}

\* C34: when no syntax type resolves, the line is one default-colored
\* span to which the three passes are applied: the matched brackets at
\* the cursor have the bracket color, the other characters at or beyond
\* the length threshold and the trailing whitespace have the error color,
\* and every other character has the default color.
C34_PlainLineGetsAllPasses ==
    (found.op = "highlight" /\ ~query.syntax) =>
        /\ Concatenated(found.value) = query.line
        /\ \A p \in 0..(Len(query.line) - 1) :
               ColorAt(found.value, p) =
                   IF p \in MatchedBrackets THEN COLOR_BRACKET
                   ELSE IF p >= query.max_line_length
                           \/ p >= Len(rstrip(query.line))
                   THEN COLOR_ERROR
                   ELSE COLOR_NORMAL

----------------------------------------------------------------------------
(* SpecQuit: the editing session with its save and quit commands.  A save  *)
(* is one step that succeeds, or fails on the way (ok = FALSE) and is      *)
(* reported.                                                               *)

\* AxiomEditor.save_file(filename): the name becomes the current file;
\* without one nothing is saved; TextBuffer.save_file binds the name and
\* writes the content, and the editor's flag is cleared after it returns.
\* A directory cannot be replaced by the temporary file.
EdSaveFile(arg, ok) ==
    LET name == IF arg # None THEN arg ELSE current_file
    IN  /\ current_file' = name
        /\ IF name = None
           THEN UNCHANGED <<bufVars, fs, ed_modified>>
           ELSE /\ filename' = name
                /\ IF ok /\ fs[name].kind # "dir"
                   THEN /\ fs' = replace_file(
                                     [fs EXCEPT ![temp_file_of(name)] =
                                                   RegularFile(save_content)],
                                     temp_file_of(name), name)
                        /\ modified' = FALSE
                        /\ ed_modified' = FALSE
                   ELSE /\ fs' = cleanup(fs, temp_file_of(name))
                        /\ UNCHANGED <<modified, ed_modified>>
                /\ UNCHANGED <<lines, encoding, line_ending, total_chars,
                               total_lines>>

\* What the save and quit commands leave alone.
QuitFrame ==
    UNCHANGED <<curVars, viewVars, termVars, raised, last_search, callVars>>

\* :s, :w, :sa <filename>
CmdSave(arg, ok) ==
    /\ running
    /\ EdSaveFile(arg, ok)
    /\ UNCHANGED running
    /\ QuitFrame

\* quit_editor(force)
quit_editor(force) ==
    running' = IF ed_modified' /\ ~force THEN running ELSE FALSE

\* :q and Ctrl+C
CmdQuit ==
    /\ running
    /\ UNCHANGED <<bufVars, fs, ed_modified, current_file>>
    /\ quit_editor(FALSE)
    /\ QuitFrame

\* :q!
CmdForceQuit ==
    /\ running
    /\ UNCHANGED <<bufVars, fs, ed_modified, current_file>>
    /\ quit_editor(TRUE)
    /\ QuitFrame

\* :sq, :wq, :x, :exit: save_file(), which reports a failure and returns,
\* then quit_editor(force=True).
CmdSaveQuit(ok) ==
    /\ running
    /\ EdSaveFile(None, ok)
    /\ quit_editor(TRUE)
    /\ QuitFrame

InitQuit ==
    /\ InitBuffer
    /\ InitEditor
    /\ height = 4
    /\ width = 7
    /\ fs = StoreFs
    /\ NoCall
    /\ query = NoQuery
    /\ found = NoResult

NextQuit ==
    \/ \E char \in Keys : InsertChar(char) /\ Handled("edit")
    \/ InsertNewline /\ Handled("edit")
    \/ DeleteCharBack /\ Handled("edit")
    \/ DeleteCharForward /\ Handled("edit")
    \/ \E r \in SessionReplacements :
           CmdReplaceAll(r[1], r[2], TRUE, FALSE) /\ Handled("replace_all")
    \/ \E path \in {"s", "d"} : CmdOpen(path) /\ Handled("open")
    \/ \E arg \in {None, "s"}, ok \in BOOLEAN :
           CmdSave(arg, ok) /\ Handled("save")
    \/ CmdQuit /\ Handled("quit")
    \/ CmdForceQuit /\ Handled("force_quit")
    \/ \E ok \in BOOLEAN : CmdSaveQuit(ok) /\ Handled("save_quit")

SpecQuit == InitQuit /\ [][NextQuit]_vars

\* C35: in every state reachable by keys and commands, the editor's
\* modified flag equals the document store's modified flag.
C35_FlagsAgree == ed_modified = modified

\* The step saved the document: the current file holds the content and
\* both flags are cleared.
SaveSucceeded ==
    /\ current_file' # None
    /\ fs'[current_file'] = RegularFile(save_content)
    /\ ~modified'
    /\ ~ed_modified'

\* C36: the editor stops running with unsaved changes only through the
\* force-quit command: quit with unsaved changes keeps it running, and
\* save-and-quit stops it only when the save succeeded; without a
\* filename or when the save fails the editor keeps running and the
\* changes are kept.
C36_StopsOnlySavedOrForced ==
    [][/\ (last_op' = "quit" /\ ed_modified) => running'
       /\ (last_op' = "save_quit" /\ ed_modified /\ ~running') =>
              SaveSucceeded
       /\ (last_op' = "save_quit" /\ ed_modified /\ ~SaveSucceeded) =>
              running' /\ lines' = lines /\ ed_modified'
       /\ (running /\ ~running' /\ ed_modified') =>
              last_op' = "force_quit"]_vars

----------------------------------------------------------------------------
(* SpecUndo: a key that inserts, then Backspace, on a document and with an *)
(* in-range cursor drawn at the start; pre holds the buffer and query the  *)
(* cursor before the first key.                                            *)

InitUndo ==
    /\ lines \in EditDocs
    /\ filename = None
    /\ encoding = "utf-8"
    /\ line_ending = <<LF>>
    /\ modified = FALSE
    /\ total_lines = Len(lines)
    /\ total_chars = SumLen(lines) + (Len(lines) - 1)
    /\ raised = FALSE
    /\ cursor_y \in 0..(Len(lines) - 1)
    /\ cursor_x \in 0..Len(lines[cursor_y + 1])
    /\ scroll_x = 0
    /\ scroll_y = 0
    /\ height \in Heights
    /\ width \in Widths
    /\ show_line_numbers = TRUE
    /\ ed_modified = FALSE
    /\ current_file = None
    /\ running = TRUE
    /\ last_search = NoSearch
    /\ last_op = "none"
    /\ fs = SessionFs
    /\ NoCall
    /\ query = [line |-> cursor_y, col |-> cursor_x]
    /\ found = NoResult

NextUndo ==
    \/ last_op = "none" /\ insert_newline_key /\ Handled("enter")
    \/ \E char \in Keys :
           last_op = "none" /\ insert_char_key(char) /\ Handled("char")
    \/ last_op = "enter" /\ DeleteCharBack /\ Handled("enter;backspace")
    \/ last_op = "char" /\ DeleteCharBack /\ Handled("char;backspace")

SpecUndo == InitUndo /\ [][NextUndo]_vars

\* C37: for every in-range cursor position, the Enter key followed by the
\* Backspace key restores the lines of the document and the cursor that
\* held before Enter; likewise a printable key followed by Backspace.
C37_BackspaceUndoesTheKey ==
    last_op \in {"enter;backspace", "char;backspace"} =>
        /\ lines = pre.buf.lines
        /\ cursor_y = query.line
        /\ cursor_x = query.col

\* Enter was pressed between the two characters of the second line "ab"
\* and then Backspace: the cursor is back between them.
C37_Witness ==
    /\ last_op = "enter;backspace"
    /\ lines = <<<<>>, <<"a", "b">>>>
    /\ cursor_y = 1
    /\ cursor_x = 1
    /\ modified
    /\ ed_modified

----------------------------------------------------------------------------
(* SpecNext: movement keys and :f on an unchanged document, then a run of  *)
(* :fn commands; last_op is empty until the first :fn and then holds the   *)
(* cursor before the first :fn followed by the cursor after each :fn.      *)

NextHeights == {2, 4}

\* The starts <<line, column>> of the occurrences of text in the document.
OccurrenceStarts(text) ==
    {p \in (0..(Len(lines) - 1)) \X (0..SumLen(lines)) :
        OccursAt(lines[p[1] + 1], text, p[2])}

\* The first occurrence after position p, or the first of all after the
\* last one.
CyclicNext(O, p) ==
    LET after == {q \in O : Precedes(p, q)}
    IN  First(IF after # {} THEN after ELSE O)

InitNext ==
    /\ lines \in EditDocs
    /\ filename = None
    /\ encoding = "utf-8"
    /\ line_ending = <<LF>>
    /\ modified = FALSE
    /\ total_lines = Len(lines)
    /\ total_chars = SumLen(lines) + (Len(lines) - 1)
    /\ raised = FALSE
    /\ cursor_x = 0
    /\ cursor_y = 0
    /\ scroll_x = 0
    /\ scroll_y = 0
    /\ height \in NextHeights
    /\ width \in Widths
    /\ show_line_numbers = TRUE
    /\ ed_modified = FALSE
    /\ current_file = None
    /\ running = TRUE
    /\ last_search = NoSearch
    /\ last_op = <<>>
    /\ fs = SessionFs
    /\ NoCall
    /\ query = NoQuery
    /\ found = NoResult

\* :fn, recorded.
FindNextRecorded ==
    /\ last_search.has
    /\ Len(last_op) <= Cardinality(OccurrenceStarts(last_search.text))
    /\ CmdFindNext
    /\ Handled(IF last_op = <<>>
               THEN << <<cursor_y, cursor_x>>, <<cursor_y', cursor_x'>> >>
               ELSE Append(last_op, <<cursor_y', cursor_x'>>))

NextNext ==
    \/ last_op = <<>> /\ OnDocument /\ MoveCursorRight /\ Handled(<<>>)
    \/ last_op = <<>> /\ OnDocument /\ MoveCursorDown /\ Handled(<<>>)
    \/ last_op = <<>> /\ OnDocument /\ MovePageUp /\ Handled(<<>>)
    \/ last_op = <<>> /\ OnDocument /\ MovePageDown /\ Handled(<<>>)
    \/ \E text \in SessionPatterns :
           last_op = <<>> /\ OnDocument /\ CmdFind(text) /\ Handled(<<>>)
    \/ FindNextRecorded

SpecNext == InitNext /\ [][NextNext]_vars

\* C38: with a literal, case-sensitive pattern and an unchanged document
\* holding N >= 1 occurrences, each :fn moves the cursor to the start of the
\* next occurrence after the cursor in cyclic document order, so N
\* consecutive :fn commands visit every occurrence.
C38_FindNextCycles ==
    LET O == OccurrenceStarts(last_search.text)
        N == Cardinality(O)
    IN  (last_search.has /\ N >= 1 /\ last_op # <<>>) =>
            /\ \A k \in 2..Len(last_op) :
                   last_op[k] = CyclicNext(O, last_op[k - 1])
            /\ Len(last_op) > N =>
                   {last_op[k] : k \in 2..(N + 1)} = O

----------------------------------------------------------------------------
(* SpecBrackets: one scan from a bracket of a line, then the opposite scan *)
(* from the index it returned; query holds the arguments of the first scan *)
(* and found the indices returned, in order.                               *)

PairTypes == {<<"(", ")">>, <<"[", "]">>}

BracketScans(l) ==
    {[line |-> l, start |-> i, open_char |-> t[1], close_char |-> t[2]] :
        i \in 0..(Len(l) - 1), t \in PairTypes}

InitBrackets ==
    /\ InitBuffer
    /\ InitEditor
    /\ height = 4
    /\ width = 7
    /\ fs = SessionFs
    /\ NoCall
    /\ \E l \in BracketLines(MaxLineLen + 1) : query \in BracketScans(l)
    /\ found = [op |-> "none", value |-> <<>>]

BracketsFrame ==
    UNCHANGED <<bufVars, curVars, viewVars, termVars, edVars, last_op, fs,
                raised, pc, call, pre, failed_at, round_trip, query>>

\* _find_matching_bracket_forward(line, start, open_char, close_char)
ScanForward(start, op) ==
    /\ found' = [op |-> op,
                  value |-> Append(found.value,
                                   find_matching_bracket_forward(
                                       query.line, start, query.open_char,
                                       query.close_char))]
    /\ BracketsFrame

\* _find_matching_bracket_backward(line, start, open_char, close_char)
ScanBackward(start, op) ==
    /\ found' = [op |-> op,
                  value |-> Append(found.value,
                                   find_matching_bracket_backward(
                                       query.line, start, query.open_char,
                                       query.close_char))]
    /\ BracketsFrame

NextBrackets ==
    \/ /\ found.op = "none"
       /\ query.line[query.start + 1] = query.open_char
       /\ ScanForward(query.start, "forward")
    \/ /\ found.op = "none"
       /\ query.line[query.start + 1] = query.close_char
       /\ ScanBackward(query.start, "backward")
    \/ /\ found.op = "forward"
       /\ found.value[1] # -1
       /\ ScanBackward(found.value[1], "forward;backward")
    \/ /\ found.op = "backward"
       /\ found.value[1] # -1
       /\ ScanForward(found.value[1], "backward;forward")

SpecBrackets == InitBrackets /\ [][NextBrackets]_vars

\* C39: bracket matching is symmetric: for every line and every pair type,
\* the forward scan from an opening bracket at index i returns j if and only
\* if the backward scan from the closing bracket at index j returns i.
C39_ScansAreSymmetric ==
    /\ found.op \in {"forward", "backward"} /\ found.value[1] # -1 =>
           query.line[found.value[1] + 1] =
               (IF found.op = "forward" THEN query.close_char
                ELSE query.open_char)
    /\ found.op \in {"forward;backward", "backward;forward"} =>
           found.value[2] = query.start

\* On "([)]" the forward scan from the round bracket at 0 returned 2, the
\* square brackets not counted, and the backward scan from 2 returned 0.
C39_Witness ==
    /\ found.op = "forward;backward"
    /\ query.line = <<"(", "[", ")", "]">>
    /\ query.start = 0
    /\ found.value = <<2, 0>>

----------------------------------------------------------------------------
(* SpecErrors: the ErrorHandler under handle_error, handle_warning and     *)
(* clear_error_history, in any order.  found.value holds error_history,    *)
(* each entry by its type, and query the two counters.                     *)

\* _record_error: the number of entries kept.
HistoryLimit == 100

\* The model stops counting errors and warnings at these numbers.
MaxErrors   == 2
MaxWarnings == HistoryLimit + 2

error_history == found.value
error_count   == query.error_count
warning_count == query.warning_count

\* error_history[-100:]
LastEntries(h, n) ==
    IF Len(h) > n THEN SubSeq(h, Len(h) - n + 1, Len(h)) ELSE h

InitErrors ==
    /\ InitBuffer
    /\ InitEditor
    /\ height = 4
    /\ width = 7
    /\ fs = SessionFs
    /\ NoCall
    /\ query = [error_count |-> 0, warning_count |-> 0]
    /\ found = [op |-> "none", value |-> <<>>]

ErrorsFrame ==
    UNCHANGED <<bufVars, curVars, viewVars, termVars, edVars, last_op, fs,
                raised, pc, call, pre, failed_at, round_trip>>

\* _record_error
record_error(h) ==
    LET appended == Append(h, "error")
    IN  IF Len(appended) > HistoryLimit
        THEN LastEntries(appended, HistoryLimit)
        ELSE appended

\* handle_error(error, context)
HandleError ==
    /\ error_count < MaxErrors
    /\ query' = [query EXCEPT !.error_count = @ + 1]
    /\ found' = [op |-> "handle_error", value |-> record_error(error_history)]
    /\ ErrorsFrame

\* handle_warning(message, context)
HandleWarning ==
    /\ warning_count < MaxWarnings
    /\ query' = [query EXCEPT !.warning_count = @ + 1]
    /\ found' = [op |-> "handle_warning",
                  value |-> Append(error_history, "warning")]
    /\ ErrorsFrame

\* clear_error_history()
ClearErrorHistory ==
    /\ query' = [error_count |-> 0, warning_count |-> 0]
    /\ found' = [op |-> "clear_error_history", value |-> <<>>]
    /\ ErrorsFrame

NextErrors ==
    \/ HandleError
    \/ HandleWarning
    \/ ClearErrorHistory

SpecErrors == InitErrors /\ [][NextErrors]_vars

\* C40: after any sequence of handle_error, handle_warning and
\* clear_error_history calls, the error history holds at most 100 entries.
C40_HistoryBounded == Len(error_history) <= HistoryLimit

====
